---- MODULE Spec2Model ----
(***************************************************************************)
(* A model of autofolio's patch engine (patcher.py), its diff previewer    *)
(* (preview.py) and the pipeline that drives them (cli.py, web/app.py).    *)
(*                                                                         *)
(* Text is modelled character by character: a Python str is a sequence of  *)
(* one-character strings, so that splitlines, substring search, prefix     *)
(* tests and path normalisation are computed as the code computes them.    *)
(***************************************************************************)
EXTENDS Integers, Sequences, FiniteSets, TLC

VARIABLES
    repo_root,      \* _sanitize_path: the resolved repository root (its parts)
    relative_path,  \* _sanitize_path: the PatchAction.path under test (a str)
    sanitized,      \* _sanitize_path: its outcome, or NotCalled
    fs,             \* the files of the working tree: resolved path -> text
    fs0,            \* the files as they were when the patches were handed over
    patches,        \* the list[PatchAction] handed to the previewer / applier
    diffs,          \* preview_and_confirm: what _compute_diff found per patch
    applied,        \* apply_patches: how the call ended, or NoCall
    phase,          \* "idle" -> "previewed" -> "applied"
    pc,             \* _run_pipeline: the step the run is at
    opts,           \* _run_pipeline: the command and its flags
    cursor,         \* _run_pipeline: the index of the loop the run is in
    results,        \* _run_pipeline: results, a list of _ProjectResult
    all_patches,    \* _run_pipeline: all_patches
    profile_patches_all, \* _run_pipeline: profile_patches_all
    portfolio,      \* the portfolio repository: patches written, branch, commit, push
    profile,        \* the profile-README repository, and its temporary clone
    config_files,   \* the projects whose config file is on disk
    log,            \* the calls with an effect outside the process, in order
    call,           \* a function under test: its name and its arguments
    ret             \* what that function returned or raised, once it was called

pathVars == <<repo_root, relative_path, sanitized>>
patchVars == <<fs, fs0, patches, diffs, applied, phase>>
pipeVars == <<pc, opts, cursor, results, all_patches, profile_patches_all,
              portfolio, profile, config_files, log>>
callVars == <<call, ret>>
vars == <<pathVars, patchVars, pipeVars, callVars>>

----------------------------------------------------------------------------
(* Bounds of the model.                                                    *)

\* Longest PatchAction.path, in characters, that Init of SpecPath draws.
MaxPathLen == 5
\* Longest starting text, in characters, of the target file in SpecPatch.
MaxLen == 4
\* Most PatchActions in one apply_patches call of SpecPatch.
MaxBatch == 3
\* Most projects handed to one run of the pipeline in SpecPipe.
MaxProjects == 2
\* Longest answer, in characters, typed at the "Patches to apply" prompt.
MaxRawLen == 4
\* Largest AUTOFOLIO_MAX_RETRIES drawn in SpecRetry (3 is the default).
MaxRetries == 3
\* Largest entry_count of the hint a scanner finds in SpecListing.
MaxEntries == 3
\* Most lines of the text the generator answers with in SpecEntry.
MaxLines == 2
\* Longest table sample row of SpecTable, in characters.
MaxSampleLen == 6
\* Most lines of the section text of SpecFormat.
MaxSectionLines == 3
\* Most lines of the README of SpecPositions.
MaxDocLines == 5
\* Largest line number of an entry position in SpecInsertion.
MaxLineNo == 6

----------------------------------------------------------------------------
(* Python str helpers.                                                     *)

NL == "\n"
\* Python's None where a str is expected: no str of characters equals it.
NoneStr == <<"None">>
\* Python's None where an int is expected (target_line, insert_idx); the
\* model draws no negative int, so that -1 stands for nothing else.
NoneInt == -1

\* All strings over the alphabet cs of length at most n.
RECURSIVE StringsUpTo(_, _)
StringsUpTo(cs, n) ==
    IF n = 0 THEN {<<>>}
    ELSE LET shorter == StringsUpTo(cs, n - 1)
         IN  shorter \cup {Append(s, c) : s \in {t \in shorter : Len(t) = n - 1}, c \in cs}

\* str.startswith
startswith(s, prefix) ==
    /\ Len(prefix) <= Len(s)
    /\ SubSeq(s, 1, Len(prefix)) = prefix

\* `needle in s` for two strs
contains(s, needle) ==
    \E i \in 0..(Len(s) - Len(needle)) : SubSeq(s, i + 1, i + Len(needle)) = needle

\* "".join(lines)
RECURSIVE join(_)
join(lines) ==
    IF lines = <<>> THEN <<>> ELSE Head(lines) \o join(Tail(lines))

----------------------------------------------------------------------------
(* pathlib, as far as _sanitize_path uses it (POSIX flavour, a tree        *)
(* without symbolic links).  A path is the sequence of its parts below     *)
(* "/"; a part is a str.                                                   *)

DOTDOT == <<".", ".">>
DOT == <<".">>

\* s.split("/")
RECURSIVE split_slash(_, _)
split_slash(s, cur) ==
    IF s = <<>> THEN <<cur>>
    ELSE IF Head(s) = "/" THEN <<cur>> \o split_slash(Tail(s), <<>>)
    ELSE split_slash(Tail(s), Append(cur, Head(s)))

\* Path(s).parts without the root: empty and "." components are dropped,
\* ".." is kept.
PathParts(s) ==
    SelectSeq(split_slash(s, <<>>), LAMBDA c : c # <<>> /\ c # DOT)

\* Path(s).is_absolute()
is_absolute(s) == Len(s) > 0 /\ s[1] = "/"

\* Path.resolve() of an absolute path: ".." pops a part ("/.." is "/").
RECURSIVE resolve_from(_, _)
resolve_from(done, parts) ==
    IF parts = <<>> THEN done
    ELSE IF Head(parts) = DOTDOT
         THEN resolve_from(IF done = <<>> THEN <<>> ELSE SubSeq(done, 1, Len(done) - 1),
                           Tail(parts))
         ELSE resolve_from(Append(done, Head(parts)), Tail(parts))

resolve(parts) == resolve_from(<<>>, parts)

\* str(path) of an absolute path
RECURSIVE path_str(_)
path_str(parts) ==
    IF parts = <<>> THEN <<"/">>
    ELSE IF Len(parts) = 1 THEN <<"/">> \o parts[1]
    ELSE <<"/">> \o parts[1] \o path_str(Tail(parts))

\* patcher.py line 24: str(resolved).startswith(str(repo_root.resolve()))
StaysInRoot(resolved, root) ==
    startswith(path_str(resolved), path_str(resolve(root)))

\* _sanitize_path(repo_root, relative_path): the PatchError raised, or the
\* resolved path returned.
_sanitize_path(root, rel) ==
    IF is_absolute(rel)
    THEN [error |-> "must_be_relative", path |-> <<>>]
    ELSE LET resolved == resolve(root \o PathParts(rel))
         IN  IF ~StaysInRoot(resolved, root)
             THEN [error |-> "escapes_root", path |-> <<>>]
             ELSE [error |-> "none", path |-> resolved]

----------------------------------------------------------------------------
(* SpecPath: _sanitize_path over every root and every path of the bounds.  *)

PathChars == {"/", ".", "r", "x"}
Roots == { << <<"r">> >>, << <<"x">>, <<"r">> >> }
NotCalled == [error |-> "not_called", path |-> <<>>]

PatchIdle ==
    /\ fs = <<>> /\ fs0 = <<>> /\ patches = <<>> /\ diffs = <<>>
    /\ applied = "no_call" /\ phase = "unused"

PipeIdle ==
    /\ pc = "unused" /\ opts = <<>> /\ cursor = 0 /\ results = <<>>
    /\ all_patches = <<>> /\ profile_patches_all = <<>>
    /\ portfolio = <<>> /\ profile = <<>> /\ config_files = {} /\ log = <<>>

\* No function is under test.
NoCallUnderTest ==
    /\ call = <<>> /\ ret = <<>>

InitPath ==
    /\ repo_root \in Roots
    /\ relative_path \in StringsUpTo(PathChars, MaxPathLen)
    /\ sanitized = NotCalled
    /\ PatchIdle
    /\ PipeIdle
    /\ NoCallUnderTest

SanitizePath ==
    /\ sanitized = NotCalled
    /\ sanitized' = _sanitize_path(repo_root, relative_path)
    /\ UNCHANGED <<repo_root, relative_path, patchVars, pipeVars, callVars>>

NextPath == SanitizePath

SpecPath == InitPath /\ [][NextPath]_vars

\* A path lies at or beneath root when root's parts are a prefix of its parts.
IsAtOrBeneath(path, root) ==
    /\ Len(root) <= Len(path)
    /\ SubSeq(path, 1, Len(root)) = root

\* C1: every path _sanitize_path accepts is the repository root or lies
\* beneath it (a sibling directory whose name starts with the root's name
\* included), and every absolute path is rejected.
C1_AcceptedPathStaysInRoot ==
    /\ sanitized.error = "none" => IsAtOrBeneath(sanitized.path, repo_root)
    /\ (sanitized # NotCalled /\ is_absolute(relative_path)) => sanitized.error # "none"

----------------------------------------------------------------------------
(* patcher.py: apply_patches, and preview.py: _simulate_patch and          *)
(* _compute_diff.  A PatchAction is the record of config.py lines 51-56.   *)
(* The working tree is a function from resolved path to text; its domain   *)
(* is the set of files that exist.  Texts are over an alphabet whose only  *)
(* line boundary is "\n", which write_text and read_text leave as it is.   *)

ALLOWED_ACTIONS == {"create", "replace", "append", "insert_after_line", "insert_before_line"}

\* str.splitlines(keepends=True)
RECURSIVE splitlines_from(_, _)
splitlines_from(s, cur) ==
    IF s = <<>> THEN (IF cur = <<>> THEN <<>> ELSE <<cur>>)
    ELSE IF Head(s) = NL THEN <<Append(cur, NL)>> \o splitlines_from(Tail(s), <<>>)
    ELSE splitlines_from(Tail(s), Append(cur, Head(s)))

splitlines(s) == splitlines_from(s, <<>>)

\* list.insert(idx, item) for 0 <= idx <= len(lines)
list_insert(lines, idx, item) ==
    SubSeq(lines, 1, idx) \o <<item>> \o SubSeq(lines, idx + 1, Len(lines))

\* `if not patch.insert_after_marker`: None and "" are both falsy
HasMarker(patch) ==
    patch.insert_after_marker # NoneStr /\ patch.insert_after_marker # <<>>

\* The lines (0-based indices) that contain the marker as a substring.
MarkerLines(lines, marker) ==
    {i \in 0..(Len(lines) - 1) : contains(lines[i + 1], marker)}

Max(S) == CHOOSE x \in S : \A y \in S : y <= x
Min(S) == CHOOSE x \in S : \A y \in S : x <= y

\* patcher.py lines 119-122 with the loop stopped at the first match.
AfterFirstMarkerIdx(lines, marker) ==
    IF MarkerLines(lines, marker) = {} THEN NoneInt
    ELSE Min(MarkerLines(lines, marker)) + 1

\* patcher.py lines 119-122: the loop runs to the end, so the last line that
\* contains the marker decides; NoneInt when no line does.
AfterLastMarkerIdx(lines, marker) ==
    IF MarkerLines(lines, marker) = {} THEN NoneInt
    ELSE Max(MarkerLines(lines, marker)) + 1

\* patcher.py lines 147-151: the loop breaks at the first match.
BeforeFirstMarkerIdx(lines, marker) ==
    IF MarkerLines(lines, marker) = {} THEN NoneInt
    ELSE Min(MarkerLines(lines, marker))

\* patcher.py lines 127-129 and 163-165
content_to_insert(patch) ==
    IF patch.content # <<>> /\ patch.content[Len(patch.content)] = NL
    THEN patch.content
    ELSE Append(patch.content, NL)

exists(tree, target) == target \in DOMAIN tree

write_text(tree, target, text) ==
    [f \in DOMAIN tree \cup {target} |-> IF f = target THEN text ELSE tree[f]]

Raise(tree, kind) == [error |-> kind, tree |-> tree]
Done(tree) == [error |-> "none", tree |-> tree]

\* patcher.py lines 133-167, with the marker looked up before target_line.
InsertBeforeLineMarkerFirst(tree, target, patch) ==
    LET lines == splitlines(tree[target])
    IN  IF HasMarker(patch)
        THEN LET idx == BeforeFirstMarkerIdx(lines, patch.insert_after_marker)
             IN  IF idx = NoneInt THEN Raise(tree, "marker_not_found")
                 ELSE Done(write_text(tree, target,
                          join(list_insert(lines, idx, content_to_insert(patch)))))
        ELSE IF patch.target_line # NoneInt
        THEN LET idx == patch.target_line - 1
             IN  IF idx < 0 \/ idx > Len(lines) THEN Raise(tree, "line_out_of_range")
                 ELSE Done(write_text(tree, target,
                          join(list_insert(lines, idx, content_to_insert(patch)))))
        ELSE Raise(tree, "marker_or_line_required")

\* patcher.py lines 136-167: insert_before_line on an existing target.
InsertBeforeLine(tree, target, patch) ==
    LET lines == splitlines(tree[target])
    IN  IF patch.target_line # NoneInt
        THEN LET idx == patch.target_line - 1
             IN  IF idx < 0 \/ idx > Len(lines) THEN Raise(tree, "line_out_of_range")
                 ELSE Done(write_text(tree, target,
                          join(list_insert(lines, idx, content_to_insert(patch)))))
        ELSE IF HasMarker(patch)
        THEN LET idx == BeforeFirstMarkerIdx(lines, patch.insert_after_marker)
             IN  IF idx = NoneInt THEN Raise(tree, "marker_not_found")
                 ELSE Done(write_text(tree, target,
                          join(list_insert(lines, idx, content_to_insert(patch)))))
        ELSE Raise(tree, "marker_or_line_required")

\* patcher.py lines 113-131 with a marker that no line contains passed over.
InsertAfterLineSkipping(tree, target, patch) ==
    IF ~HasMarker(patch) THEN Raise(tree, "marker_required")
    ELSE LET lines == splitlines(tree[target])
             idx == AfterLastMarkerIdx(lines, patch.insert_after_marker)
         IN  IF idx = NoneInt THEN Done(tree)
             ELSE Done(write_text(tree, target,
                      join(list_insert(lines, idx, content_to_insert(patch)))))

\* patcher.py lines 113-131: insert_after_line on an existing target.
InsertAfterLine(tree, target, patch) ==
    IF ~HasMarker(patch) THEN Raise(tree, "marker_required")
    ELSE LET lines == splitlines(tree[target])
             idx == AfterLastMarkerIdx(lines, patch.insert_after_marker)
         IN  IF idx = NoneInt THEN Raise(tree, "marker_not_found")
             ELSE Done(write_text(tree, target,
                      join(list_insert(lines, idx, content_to_insert(patch)))))

\* patcher.py lines 93-97 without the test of line 94.
CreateFileOverwriting(tree, target, patch) ==
    Done(write_text(tree, target, patch.content))

\* patcher.py lines 93-97: create (mkdir of the parents leaves no file).
CreateFile(tree, target, patch) ==
    IF exists(tree, target) THEN Raise(tree, "file_exists")
    ELSE Done(write_text(tree, target, patch.content))

\* One iteration of the loop of apply_patches (patcher.py lines 87-169):
\* the PatchError it raises, or the tree it leaves.
apply_patch(tree, root, patch) ==
    IF patch.action \notin ALLOWED_ACTIONS THEN Raise(tree, "unknown_action")
    ELSE LET clean == _sanitize_path(root, patch.path)
             target == clean.path
         IN  IF clean.error # "none" THEN Raise(tree, clean.error)
             ELSE IF patch.action = "create"
             THEN CreateFile(tree, target, patch)
             ELSE IF ~exists(tree, target) THEN Raise(tree, "file_not_found")
             ELSE IF patch.action = "replace"
             THEN Done(write_text(tree, target, patch.content))
             ELSE IF patch.action = "append"
             THEN Done(write_text(tree, target, tree[target] \o patch.content))
             ELSE IF patch.action = "insert_after_line"
             THEN InsertAfterLine(tree, target, patch)
             ELSE InsertBeforeLine(tree, target, patch)

\* The result of an apply_patches call: the tree it leaves, the PatchError it
\* raised ("none" when it returned), the 1-based index of the patch that
\* raised (0 when none did) and the number of entries of `modified`.
Outcome(tree, error, failed_at, modified) ==
    [tree |-> tree, error |-> error, failed_at |-> failed_at, modified |-> modified]

\* apply_patches, had it caught the PatchError of a patch and gone on to
\* the next patch.
RECURSIVE apply_patches_skipping(_, _, _, _, _)
apply_patches_skipping(tree, root, todo, i, modified) ==
    IF todo = <<>> THEN Outcome(tree, "none", 0, modified)
    ELSE LET r == apply_patch(tree, root, Head(todo))
         IN  IF r.error # "none"
             THEN LET rest == apply_patches_skipping(tree, root, Tail(todo), i + 1, modified)
                  IN  Outcome(rest.tree, r.error, i, rest.modified)
             ELSE apply_patches_skipping(r.tree, root, Tail(todo), i + 1, modified + 1)

\* apply_patches (patcher.py lines 83-172): the patches are applied in order;
\* the first PatchError leaves the loop and the function.
RECURSIVE apply_patches_from(_, _, _, _, _)
apply_patches_from(tree, root, todo, i, modified) ==
    IF todo = <<>> THEN Outcome(tree, "none", 0, modified)
    ELSE LET r == apply_patch(tree, root, Head(todo))
         IN  IF r.error # "none" THEN Outcome(tree, r.error, i, modified)
             ELSE apply_patches_from(r.tree, root, Tail(todo), i + 1, modified + 1)

apply_patches(tree, root, todo) == apply_patches_from(tree, root, todo, 1, 0)

\* preview.py lines 17-58: _simulate_patch(original, patch)
_simulate_patch(original, patch) ==
    IF patch.action \in {"create", "replace"} THEN patch.content
    ELSE IF patch.action = "append" THEN original \o patch.content
    ELSE LET lines == splitlines(original)
         IN  IF patch.action = "insert_after_line"
             THEN LET marker == IF HasMarker(patch) THEN patch.insert_after_marker ELSE <<>>
                      idx == AfterLastMarkerIdx(lines, marker)
                  IN  IF idx = NoneInt THEN join(lines)
                      ELSE join(list_insert(lines, idx, content_to_insert(patch)))
             ELSE IF patch.action = "insert_before_line"
             THEN LET idx ==
                          IF patch.target_line # NoneInt
                          THEN (IF patch.target_line - 1 < 0 \/ patch.target_line - 1 > Len(lines)
                                THEN NoneInt ELSE patch.target_line - 1)
                          ELSE IF HasMarker(patch)
                          THEN BeforeFirstMarkerIdx(lines, patch.insert_after_marker)
                          ELSE NoneInt
                  IN  IF idx = NoneInt THEN join(lines)
                      ELSE join(list_insert(lines, idx, content_to_insert(patch)))
             ELSE join(lines)

\* preview.py lines 61-69: what _compute_diff diffs, or the exception that
\* preview_and_confirm turns into "(could not compute diff ...)".
_compute_diff(tree, root, patch) ==
    LET clean == _sanitize_path(root, patch.path)
    IN  IF clean.error # "none"
        THEN [error |-> clean.error, old_text |-> <<>>, new_text |-> <<>>]
        ELSE IF patch.action # "create" /\ ~exists(tree, clean.path)
        THEN [error |-> "FileNotFoundError", old_text |-> <<>>, new_text |-> <<>>]
        ELSE LET old_text == IF patch.action = "create" THEN <<>> ELSE tree[clean.path]
             IN  [error |-> "none", old_text |-> old_text,
                  new_text |-> _simulate_patch(old_text, patch)]

----------------------------------------------------------------------------
(* SpecPatch: a working tree whose file f holds any text of the bounds (or *)
(* does not exist), a list of patches previewed against it and then        *)
(* applied to it, as cli.py lines 581-611 do with the answer "y".          *)

TextChars == {"a", "b", NL}
PatchRoot == << <<"r">> >>
FileF == Append(PatchRoot, <<"f">>)
FileG == Append(PatchRoot, <<"g">>)

PatchAction(path, action, marker, line, content) ==
    [path |-> path, action |-> action, insert_after_marker |-> marker,
     target_line |-> line, content |-> content]

Markers == {NoneStr, <<>>, <<"a">>, <<"b">>, <<"a", "b">>}
Contents == {<<>>, <<"b">>, <<"b", NL>>, <<"a", NL, "b">>}
TargetLines == {NoneInt} \cup 0..(MaxLen + 2)

\* The single patches: every action on f, with every marker, line and content.
SinglePatches ==
    {PatchAction(<<"f">>, a, NoneStr, NoneInt, c) :
        a \in {"create", "replace", "append"}, c \in Contents}
    \cup {PatchAction(<<"f">>, "insert_after_line", m, l, c) :
        m \in Markers, l \in {NoneInt, 1}, c \in Contents}
    \cup {PatchAction(<<"f">>, "insert_before_line", m, l, c) :
        m \in Markers, l \in TargetLines, c \in Contents}
    \cup {PatchAction(p, a, <<"a">>, 1, <<"b">>) :
        p \in {<<"/", "f">>, <<".", ".", "/", "f">>}, a \in ALLOWED_ACTIONS}

\* The patches that lists of two or more are made of.
BatchPatches ==
    { PatchAction(<<"f">>, "create", NoneStr, NoneInt, <<"a", NL>>),
      PatchAction(<<"g">>, "replace", NoneStr, NoneInt, <<"b">>),
      PatchAction(<<"g">>, "create", NoneStr, NoneInt, <<"a">>),
      PatchAction(<<"f">>, "append", NoneStr, NoneInt, <<"b", NL>>),
      PatchAction(<<"f">>, "insert_after_line", <<"a">>, NoneInt, <<"b">>),
      PatchAction(<<"f">>, "insert_before_line", NoneStr, 1, <<"b">>) }

PatchLists ==
    {<<p>> : p \in SinglePatches}
    \cup UNION {[1..n -> BatchPatches] : n \in 2..MaxBatch}

\* The trees that lists of two or more patches are applied to.
BatchTrees == {<<>>, (FileF :> <<"a", NL>>), (FileF :> <<"b">>)}

NoDiffs == <<>>
NoCall == [error |-> "no_call", failed_at |-> 0, modified |-> 0]

PathUnused ==
    /\ repo_root = PatchRoot /\ relative_path = <<>> /\ sanitized = NotCalled

InitPatch ==
    /\ PathUnused
    /\ fs \in {<<>>} \cup {(FileF :> t) : t \in StringsUpTo(TextChars, MaxLen)}
    /\ fs0 = fs
    /\ patches = <<>>
    /\ diffs = NoDiffs
    /\ applied = NoCall
    /\ phase = "idle"
    /\ PipeIdle
    /\ NoCallUnderTest

\* preview_and_confirm (preview.py lines 129-169), answered "y": a diff is
\* computed for every patch against the tree as it is, nothing is written,
\* and the patches are returned.
PreviewAndConfirm(todo) ==
    /\ phase = "idle"
    /\ Len(todo) = 1 \/ fs \in BatchTrees
    /\ phase' = "previewed"
    /\ patches' = todo
    /\ diffs' = [i \in 1..Len(todo) |-> _compute_diff(fs, repo_root, todo[i])]
    /\ UNCHANGED <<fs, fs0, applied, pathVars, pipeVars, callVars>>

\* apply_patches(repo_path, all_patches) (cli.py line 611)
ApplyPatches ==
    /\ phase = "previewed"
    /\ phase' = "applied"
    /\ LET r == apply_patches(fs, repo_root, patches)
       IN  /\ fs' = r.tree
           /\ applied' = [error |-> r.error, failed_at |-> r.failed_at,
                          modified |-> r.modified]
    /\ UNCHANGED <<fs0, patches, diffs, pathVars, pipeVars, callVars>>

NextPatch ==
    \/ \E todo \in PatchLists : PreviewAndConfirm(todo)
    \/ ApplyPatches

SpecPatch == InitPatch /\ [][NextPatch]_vars

----------------------------------------------------------------------------
(* The claims about the patch engine and the previewer.                    *)

OnePatchApplied == phase = "applied" /\ Len(patches) = 1
ThePatch == patches[1]
TheTarget == _sanitize_path(repo_root, ThePatch.path).path
PathAccepted == _sanitize_path(repo_root, ThePatch.path).error = "none"
IsInsert(patch) == patch.action \in {"insert_after_line", "insert_before_line"}

\* The starting content the previewer simulates against: the text of the
\* target, or the empty text of a target that create is about to make.
HasStartingContent ==
    /\ diffs[1].error = "none"
    /\ ThePatch.action = "create" <=> ~exists(fs0, TheTarget)

\* C2: for every action kind and every starting content, the text that
\* apply_patches leaves in the target file is the text _simulate_patch
\* returned for the same action and the same starting content.
C2_AppliedEqualsSimulated ==
    (OnePatchApplied /\ HasStartingContent) =>
        /\ exists(fs, TheTarget)
        /\ fs[TheTarget] = diffs[1].new_text

\* C2, witnessed: an insert_after_line without a marker was previewed
\* against a text with lines, and apply_patches has run.
C2_Witness ==
    /\ OnePatchApplied /\ HasStartingContent
    /\ ThePatch.action = "insert_after_line" /\ ~HasMarker(ThePatch)
    /\ fs0[TheTarget] # <<>>

\* The tree after todo, each patch applied to what the one before left.
RECURSIVE TreeAfter(_, _)
TreeAfter(tree, todo) ==
    IF todo = <<>> THEN tree
    ELSE TreeAfter(apply_patch(tree, repo_root, Head(todo)).tree, Tail(todo))

AllApply(tree, todo) ==
    \A i \in 1..Len(todo) :
        apply_patch(TreeAfter(tree, SubSeq(todo, 1, i - 1)), repo_root, todo[i]).error = "none"

LineCount(text) ==
    Cardinality({i \in 1..Len(text) : text[i] = NL})
        + (IF text # <<>> /\ text[Len(text)] # NL THEN 1 ELSE 0)

\* The 1-based numbers of the lines of text that contain the marker.
LinesWith(text, marker) ==
    {k \in 1..Len(splitlines(text)) : contains(splitlines(text)[k], marker)}

\* text with `inserted` put in front of its 1-based line k (after the last
\* line when k is one more than the number of lines).
WithInsertedBefore(text, k, inserted) ==
    LET lines == splitlines(text)
    IN  join(SubSeq(lines, 1, k - 1)) \o inserted \o join(SubSeq(lines, k, Len(lines)))

InsertOnExisting ==
    /\ OnePatchApplied /\ PathAccepted
    /\ IsInsert(ThePatch) /\ exists(fs0, TheTarget)

\* insert_before_line looks at target_line first; every other insert is
\* placed by its marker.
PlacedByLine ==
    ThePatch.action = "insert_before_line" /\ ThePatch.target_line # NoneInt

C8_ExistenceChecked ==
    (OnePatchApplied /\ PathAccepted) =>
        /\ (ThePatch.action = "create" /\ exists(fs0, TheTarget))
            => (applied.error = "file_exists" /\ fs = fs0)
        /\ (ThePatch.action # "create" /\ ~exists(fs0, TheTarget))
            => (applied.error = "file_not_found" /\ fs = fs0 /\ DOMAIN fs = {})

\* C8, witnessed: a create was applied to an existing file that holds another
\* text than the patch's.
C8_Witness ==
    /\ OnePatchApplied /\ PathAccepted
    /\ ThePatch.action = "create" /\ exists(fs0, TheTarget)
    /\ fs0[TheTarget] # ThePatch.content

\* C9: insert_after_line puts the content right after the last line that
\* contains the marker.
C9_InsertAfterLastMarkerLine ==
    (InsertOnExisting /\ ThePatch.action = "insert_after_line" /\ HasMarker(ThePatch)) =>
        LET text == fs0[TheTarget]
            hits == LinesWith(text, ThePatch.insert_after_marker)
        IN  hits # {} =>
                /\ applied.error = "none"
                /\ fs[TheTarget] =
                       WithInsertedBefore(text, Max(hits) + 1, content_to_insert(ThePatch))

\* C9, witnessed: the marker is on two lines of the target and the content
\* was inserted.
C9_Witness ==
    /\ InsertOnExisting /\ ThePatch.action = "insert_after_line" /\ HasMarker(ThePatch)
    /\ Cardinality(LinesWith(fs0[TheTarget], ThePatch.insert_after_marker)) >= 2
    /\ ThePatch.content = <<"b">>
    /\ applied.error = "none"

\* C10: insert_before_line with a target_line in 1..(line count + 1) puts
\* the content right before that line, whatever the marker; without a
\* target_line it puts it right before the first line that contains the
\* marker.
C10_InsertBeforeLine ==
    (InsertOnExisting /\ ThePatch.action = "insert_before_line") =>
        LET text == fs0[TheTarget]
            hits == LinesWith(text, ThePatch.insert_after_marker)
        IN  /\ ThePatch.target_line \in 1..(LineCount(text) + 1) =>
                /\ applied.error = "none"
                /\ fs[TheTarget] =
                       WithInsertedBefore(text, ThePatch.target_line, content_to_insert(ThePatch))
            /\ (ThePatch.target_line = NoneInt /\ HasMarker(ThePatch) /\ hits # {}) =>
                /\ applied.error = "none"
                /\ fs[TheTarget] =
                       WithInsertedBefore(text, Min(hits), content_to_insert(ThePatch))

\* C10, witnessed: an insert_before_line with an in-range target_line and a
\* marker whose first line is another line has been applied.
C10_Witness ==
    /\ InsertOnExisting /\ ThePatch.action = "insert_before_line"
    /\ ThePatch.target_line \in 1..(LineCount(fs0[TheTarget]) + 1)
    /\ HasMarker(ThePatch)
    /\ LinesWith(fs0[TheTarget], ThePatch.insert_after_marker) # {}
    /\ Min(LinesWith(fs0[TheTarget], ThePatch.insert_after_marker)) # ThePatch.target_line
    /\ ThePatch.content = <<"b">>

----------------------------------------------------------------------------
(* cli.py: _run_pipeline, step by step.  A patch is named by the project   *)
(* it was generated for.  What the language model, git, the build and the  *)
(* user answer is drawn from every outcome they can have.                  *)

Elems(seq) == {seq[i] : i \in DOMAIN seq}

\* [p for p in seq if id(p) in keep]
Keep(seq, keep) == SelectSeq(seq, LAMBDA x : x \in keep)

\* The lists preview_and_confirm can return: all patches ("y"), none ("n"),
\* or the patches picked by number, each at most once, in the order typed.
Selections(seq) ==
    {q \in UNION {[1..n -> Elems(seq)] : n \in 0..Len(seq)} :
        \A i, j \in DOMAIN q : i # j => q[i] # q[j]}

\* cli.py lines 452-453: preview defaults to do_apply
PreviewOn == opts.preview = "True" \/ (opts.preview = "None" /\ opts.do_apply)

\* cli.py line 454
is_batch == opts.n > 1

\* `if profile_temp_dir: cleanup_temp(profile_temp_dir)`
cleanup_temp(prof) ==
    IF prof.temp = "alive" THEN [prof EXCEPT !.temp = "removed"] ELSE prof

\* The events cleanup_temp(profile_temp_dir) adds to the log.
CleanupLog(prof) == IF prof.temp = "alive" THEN <<"cleanup_temp">> ELSE <<>>

ProjectResult(project, project_patches) ==
    [project |-> project, patches |-> project_patches, profile_patches |-> <<>>]

CleanPortfolio ==
    [written |-> {}, branch |-> FALSE, committed |-> FALSE, pushed |-> FALSE, pr |-> FALSE]

NoProfile ==
    [where |-> "none", temp |-> "none", readme |-> "none", readme_writes |-> 0,
     written |-> {}, branch |-> FALSE, committed |-> FALSE, pushed |-> FALSE]

\* cli.py lines 154-380: the options of `run` (one config file per project)
\* and `add`.
CliOptions ==
    [command : {"run", "add"}, n : 1..MaxProjects, do_apply : BOOLEAN,
     preview : {"None", "True", "False"}, skip_build : BOOLEAN,
     no_profile : BOOLEAN, create_pr : BOOLEAN]

\* web/app.py: one project at a time, always previewed, a pull request is
\* always opened; skip_build also stands for an empty build_commands, and
\* no_profile for update_profile_readme switched off.
WebSettings ==
    [command : {"web"}, n : {1}, do_apply : {TRUE}, preview : {"True"},
     skip_build : BOOLEAN, no_profile : BOOLEAN, create_pr : {TRUE}]

InitPipe ==
    /\ PathUnused
    /\ PatchIdle
    /\ NoCallUnderTest
    /\ opts \in CliOptions \cup WebSettings
    /\ pc = IF opts.command = "web" THEN "web_idle" ELSE "collect"
    /\ cursor = 1
    /\ results = <<>>
    /\ all_patches = <<>>
    /\ profile_patches_all = <<>>
    /\ portfolio = CleanPortfolio
    /\ profile = NoProfile
    /\ config_files = IF opts.command = "run" THEN 1..opts.n ELSE {}
    /\ log = <<>>

\* One project of the loop, had the exception ended the run in a batch too.
CollectProjectFailFast(outcome) ==
    /\ pc = "collect" /\ cursor <= opts.n
    /\ \/ /\ outcome = "already_in_portfolio"
          /\ UNCHANGED <<results, pc, log>>
       \/ /\ outcome = "patch"
          /\ results' = Append(results, ProjectResult(cursor, <<cursor>>))
          /\ UNCHANGED <<pc, log>>
       \/ /\ outcome = "no_patch"
          /\ results' = Append(results, ProjectResult(cursor, <<>>))
          /\ UNCHANGED <<pc, log>>
       \/ /\ outcome = "raises"
          /\ pc' = "raised"
          /\ log' = Append(log, "collect_failed")
          /\ UNCHANGED results
    /\ cursor' = cursor + 1
    /\ UNCHANGED <<opts, all_patches, profile_patches_all, portfolio, profile,
                   config_files, pathVars, patchVars, callVars>>

\* cli.py lines 479-507: one project of the loop.
CollectProject(outcome) ==
    /\ pc = "collect" /\ cursor <= opts.n
    /\ \/ /\ outcome = "already_in_portfolio"
          /\ UNCHANGED <<results, pc, log>>
       \/ /\ outcome = "patch"
          /\ results' = Append(results, ProjectResult(cursor, <<cursor>>))
          /\ UNCHANGED <<pc, log>>
       \/ /\ outcome = "no_patch"
          /\ results' = Append(results, ProjectResult(cursor, <<>>))
          /\ UNCHANGED <<pc, log>>
       \/ /\ outcome = "raises"
          /\ pc' = IF is_batch THEN pc ELSE "raised"
          /\ log' = Append(log, "collect_failed")
          /\ UNCHANGED results
    /\ cursor' = cursor + 1
    /\ UNCHANGED <<opts, all_patches, profile_patches_all, portfolio, profile,
                   config_files, pathVars, patchVars, callVars>>

\* CollectDone, had create_branch been called before the preview.
CollectDoneBranchingEarly ==
    /\ pc = "collect" /\ cursor > opts.n
    /\ all_patches' = [i \in 1..Len(SelectSeq(results, LAMBDA r : r.patches # <<>>)) |->
                          SelectSeq(results, LAMBDA r : r.patches # <<>>)[i].patches[1]]
    /\ pc' = IF all_patches' = <<>> THEN "returned" ELSE "profile"
    /\ portfolio' = [portfolio EXCEPT !.branch = TRUE]
    /\ log' = Append(log, "create_branch")
    /\ UNCHANGED <<opts, cursor, results, profile_patches_all, profile,
                   config_files, pathVars, patchVars, callVars>>

\* cli.py lines 509-515: all_patches; the run returns when there is none.
CollectDone ==
    /\ pc = "collect" /\ cursor > opts.n
    /\ all_patches' = [i \in 1..Len(SelectSeq(results, LAMBDA r : r.patches # <<>>)) |->
                          SelectSeq(results, LAMBDA r : r.patches # <<>>)[i].patches[1]]
    /\ pc' = IF all_patches' = <<>> THEN "returned" ELSE "profile"
    /\ UNCHANGED <<opts, cursor, results, profile_patches_all, portfolio, profile,
                   config_files, log, pathVars, patchVars, callVars>>

\* cli.py lines 522-527 and 695-730: _resolve_profile_repo finds no profile
\* repository, a local one, or clones one into a temporary directory (or
\* clone_repo raises); readme is the state of its README.md.
ResolveProfileRepo(found, readme) ==
    /\ pc = "profile"
    /\ IF opts.no_profile \/ found = "none"
       THEN /\ pc' = "mode"
            /\ UNCHANGED <<profile, cursor, log>>
       ELSE IF found = "clone_raises"
       THEN /\ pc' = "raised"
            /\ UNCHANGED <<profile, cursor, log>>
       ELSE /\ pc' = "profile_step"
            /\ cursor' = 1
            /\ profile' = [profile EXCEPT !.where = found,
                               !.temp = IF found = "clone" THEN "alive" ELSE "none",
                               !.readme = readme]
            /\ log' = IF found = "clone" THEN Append(log, "clone_profile") ELSE log
    /\ UNCHANGED <<opts, results, all_patches, profile_patches_all, portfolio,
                   config_files, pathVars, patchVars, callVars>>

\* profile.py lines 1143-1190: what run_profile_step writes to README.md
\* before it returns: the minimal README when there is none (line 1148), the
\* appended "## Projects" section when no section is found (line 1169).
ProfileStepWrites(readme, outcome) ==
    \/ readme = "missing"
    \/ readme = "no_section" /\ outcome # "duplicate"

\* cli.py lines 529-555: run_profile_step for one result; its exceptions are
\* caught.
ProfileStep(outcome) ==
    /\ pc = "profile_step" /\ cursor <= Len(results)
    /\ IF results[cursor].patches = <<>>
       THEN UNCHANGED <<results, profile_patches_all, profile, log>>
       ELSE /\ profile.readme = "missing" => outcome # "duplicate"
            /\ IF ProfileStepWrites(profile.readme, outcome)
               THEN /\ profile' = [profile EXCEPT !.readme = "section",
                                       !.readme_writes = 1]
                    /\ log' = Append(log, "profile_readme_write")
               ELSE UNCHANGED <<profile, log>>
            /\ IF outcome = "patch"
               THEN /\ results' = [results EXCEPT ![cursor].profile_patches = <<cursor>>]
                    /\ profile_patches_all' = Append(profile_patches_all, cursor)
               ELSE UNCHANGED <<results, profile_patches_all>>
    /\ cursor' = cursor + 1
    /\ UNCHANGED <<pc, opts, all_patches, portfolio, config_files, pathVars, patchVars, callVars>>

ProfileStepsDone ==
    /\ pc = "profile_step" /\ cursor > Len(results)
    /\ pc' = "mode"
    /\ UNCHANGED <<opts, cursor, results, all_patches, profile_patches_all, portfolio,
                   profile, config_files, log, pathVars, patchVars, callVars>>

\* cli.py lines 560-579: the dry run shows the patches and the resume
\* snippets (whose generation may raise) and removes the temporary clone.
DryRun(resume_ok) ==
    /\ pc = "mode" /\ ~opts.do_apply
    /\ IF resume_ok
       THEN /\ pc' = "returned"
            /\ profile' = cleanup_temp(profile)
            /\ log' = log \o CleanupLog(profile)
       ELSE /\ pc' = "raised"
            /\ UNCHANGED <<profile, log>>
    /\ UNCHANGED <<opts, cursor, results, all_patches, profile_patches_all, portfolio,
                   config_files, pathVars, patchVars, callVars>>

\* cli.py lines 581-593: the preview of the portfolio patches; with none
\* approved the run returns.
PreviewPortfolio(approved) ==
    /\ pc = "mode" /\ opts.do_apply /\ PreviewOn
    /\ approved \in Selections(all_patches)
    /\ all_patches' = approved
    /\ IF approved = <<>>
       THEN /\ pc' = "returned"
            /\ profile' = cleanup_temp(profile)
            /\ log' = log \o <<"preview_cancelled">> \o CleanupLog(profile)
            /\ UNCHANGED results
       ELSE /\ pc' = IF profile_patches_all # <<>> /\ profile.where # "none"
                     THEN "preview_profile" ELSE "branch"
            /\ results' = [i \in DOMAIN results |->
                              [results[i] EXCEPT !.patches = Keep(@, Elems(approved))]]
            /\ log' = Append(log, "preview_returned")
            /\ UNCHANGED profile
    /\ UNCHANGED <<opts, cursor, profile_patches_all, portfolio, config_files,
                   pathVars, patchVars, callVars>>

\* cli.py lines 595-605: the preview of the profile patches.
PreviewProfile(approved) ==
    /\ pc = "preview_profile"
    /\ approved \in Selections(profile_patches_all)
    /\ profile_patches_all' = approved
    /\ results' = [i \in DOMAIN results |->
                      [results[i] EXCEPT !.profile_patches = Keep(@, Elems(approved))]]
    /\ pc' = "branch"
    /\ log' = Append(log, "profile_preview_returned")
    /\ UNCHANGED <<opts, cursor, all_patches, portfolio, profile, config_files,
                   pathVars, patchVars, callVars>>

\* cli.py line 581: --apply --no-preview goes straight to the branch.
NoPreview ==
    /\ pc = "mode" /\ opts.do_apply /\ ~PreviewOn
    /\ pc' = "branch"
    /\ UNCHANGED <<opts, cursor, results, all_patches, profile_patches_all, portfolio,
                   profile, config_files, log, pathVars, patchVars, callVars>>

\* cli.py lines 607-608: create_branch
CreateBranch(ok) ==
    /\ pc = "branch"
    /\ IF ok
       THEN /\ pc' = "apply"
            /\ portfolio' = [portfolio EXCEPT !.branch = TRUE]
            /\ log' = Append(log, "create_branch")
       ELSE /\ pc' = "raised"
            /\ UNCHANGED <<portfolio, log>>
    /\ UNCHANGED <<opts, cursor, results, all_patches, profile_patches_all, profile,
                   config_files, pathVars, patchVars, callVars>>

\* cli.py lines 610-611: apply_patches writes the first k patches; it raises
\* at patch k + 1 when k is not all of them.
ApplyAllPatches(k) ==
    /\ pc = "apply"
    /\ k \in 0..Len(all_patches)
    /\ portfolio' = [portfolio EXCEPT !.written = {all_patches[i] : i \in 1..k}]
    /\ log' = IF k > 0 THEN Append(log, "write") ELSE log
    /\ pc' = IF k = Len(all_patches) THEN "build" ELSE "raised"
    /\ UNCHANGED <<opts, cursor, results, all_patches, profile_patches_all, profile,
                   config_files, pathVars, patchVars, callVars>>

\* cli.py lines 613-617 and validator.py lines 15-45: the build is skipped,
\* passes, fails with BuildError, or a command times out (another exception).
RunBuild(outcome) ==
    /\ pc = "build"
    /\ IF opts.skip_build \/ outcome = "passes"
       THEN /\ pc' = "commit"
            /\ UNCHANGED log
       ELSE IF outcome = "fails"
       THEN /\ pc' = "build_failed"
            /\ log' = Append(log, "build_failed")
       ELSE /\ pc' = "raised"
            /\ UNCHANGED log
    /\ UNCHANGED <<opts, cursor, results, all_patches, profile_patches_all, portfolio,
                   profile, config_files, pathVars, patchVars, callVars>>

\* The handler of BuildError, had it logged the failure and gone on.
BuildFailureIgnored ==
    /\ pc = "build_failed"
    /\ pc' = "commit"
    /\ UNCHANGED <<opts, cursor, results, all_patches, profile_patches_all, portfolio,
                   profile, config_files, log, pathVars, patchVars, callVars>>

\* cli.py lines 617-626: on BuildError the working tree is reverted
\* (git checkout -- . and git clean -fd), the temporary clone is removed and
\* the error is raised again.
RevertAfterBuildFailure ==
    /\ pc = "build_failed"
    /\ portfolio' = [portfolio EXCEPT !.written = {}]
    /\ profile' = cleanup_temp(profile)
    /\ log' = log \o <<"revert">> \o CleanupLog(profile)
    /\ pc' = "raised"
    /\ UNCHANGED <<opts, cursor, results, all_patches, profile_patches_all,
                   config_files, pathVars, patchVars, callVars>>

\* cli.py lines 628-629: commit_changes
CommitChanges(ok) ==
    /\ pc = "commit"
    /\ IF ok
       THEN /\ pc' = "push"
            /\ portfolio' = [portfolio EXCEPT !.committed = TRUE]
            /\ log' = Append(log, "commit")
       ELSE /\ pc' = "raised"
            /\ UNCHANGED <<portfolio, log>>
    /\ UNCHANGED <<opts, cursor, results, all_patches, profile_patches_all, profile,
                   config_files, pathVars, patchVars, callVars>>

\* cli.py lines 631-653: with a remote the branch is pushed and, with --pr,
\* a pull request is opened; either call may raise.
PushBranch(outcome) ==
    /\ pc = "push"
    /\ \/ /\ outcome = "no_remote"
          /\ pc' = "profile_apply"
          /\ UNCHANGED <<portfolio, log>>
       \/ /\ outcome = "push_raises"
          /\ pc' = "raised"
          /\ UNCHANGED <<portfolio, log>>
       \/ /\ outcome = "pushed"
          /\ pc' = "profile_apply"
          /\ portfolio' = [portfolio EXCEPT !.pushed = TRUE, !.pr = opts.create_pr]
          /\ log' = log \o <<"push">> \o (IF opts.create_pr THEN <<"create_pr">> ELSE <<>>)
       \/ /\ outcome = "pr_raises" /\ opts.create_pr
          /\ pc' = "raised"
          /\ portfolio' = [portfolio EXCEPT !.pushed = TRUE]
          /\ log' = Append(log, "push")
    /\ UNCHANGED <<opts, cursor, results, all_patches, profile_patches_all, profile,
                   config_files, pathVars, patchVars, callVars>>

\* cli.py lines 655-676 and 733-776: _apply_profile_patches gets as far as
\* `reached` (0: create_branch raised, 1: apply_patches raised, 2:
\* commit_changes raised, 3: committed and not pushed, 4: pushed); its
\* exceptions are caught and the temporary clone is removed.
ApplyProfilePatches(reached) ==
    /\ pc = "profile_apply"
    /\ IF profile_patches_all # <<>> /\ profile.where # "none"
       THEN /\ reached \in 0..4
            /\ profile' = cleanup_temp(
                   [profile EXCEPT !.branch = reached >= 1,
                                   !.written = IF reached >= 2 THEN Elems(profile_patches_all) ELSE {},
                                   !.committed = reached >= 3,
                                   !.pushed = reached >= 4])
            /\ log' = log \o <<"profile_apply">> \o CleanupLog(profile)
       ELSE /\ reached = 0
            /\ profile' = cleanup_temp(profile)
            /\ log' = log \o CleanupLog(profile)
    /\ pc' = "resume"
    /\ UNCHANGED <<opts, cursor, results, all_patches, profile_patches_all, portfolio,
                   config_files, pathVars, patchVars, callVars>>

\* cli.py lines 678-684 and 791-832: the resume snippets are generated (which
\* may raise) and saved under the home directory.
HandleResume(ok) ==
    /\ pc = "resume"
    /\ IF ok
       THEN /\ pc' = "cleanup_config"
            /\ log' = Append(log, "save_snippet")
       ELSE /\ pc' = "raised"
            /\ UNCHANGED log
    /\ UNCHANGED <<opts, cursor, results, all_patches, profile_patches_all, portfolio,
                   profile, config_files, pathVars, patchVars, callVars>>

\* CleanupConfig, had it not asked whether the branch was pushed.
CleanupConfigUnpushed ==
    /\ pc = "cleanup_config"
    /\ config_files' = config_files \ {results[i].project : i \in
           {j \in DOMAIN results : results[j].patches # <<>>}}
    /\ pc' = "done"
    /\ UNCHANGED <<opts, cursor, results, all_patches, profile_patches_all, portfolio,
                   profile, log, pathVars, patchVars, callVars>>

\* cli.py lines 686-692: the config files of the projects with patches are
\* removed once the branch was pushed.
CleanupConfig ==
    /\ pc = "cleanup_config"
    /\ config_files' = config_files \ {results[i].project : i \in
           {j \in DOMAIN results : results[j].patches # <<>> /\ portfolio.pushed}}
    /\ pc' = "done"
    /\ UNCHANGED <<opts, cursor, results, all_patches, profile_patches_all, portfolio,
                   profile, log, pathVars, patchVars, callVars>>

\* web/app.py lines 459-604: on_approve_config collects the patches of the
\* project, runs the profile step and shows the preview with its two buttons.
on_approve_config(outcome, found, readme, step) ==
    /\ pc = "web_idle"
    /\ IF outcome # "patch"
       THEN /\ pc' = IF outcome = "raises" THEN "raised" ELSE "returned"
            /\ UNCHANGED <<results, all_patches, profile_patches_all, profile, log>>
       ELSE IF opts.no_profile \/ found = "none"
       THEN /\ pc' = "web_pending"
            /\ results' = <<ProjectResult(1, <<1>>)>>
            /\ all_patches' = <<1>>
            /\ UNCHANGED <<profile_patches_all, profile, log>>
       ELSE IF found = "clone_raises"
       THEN /\ pc' = "raised"
            /\ UNCHANGED <<results, all_patches, profile_patches_all, profile, log>>
       ELSE /\ readme = "missing" => step # "duplicate"
            /\ pc' = "web_pending"
            /\ all_patches' = <<1>>
            /\ results' = <<[ProjectResult(1, <<1>>) EXCEPT !.profile_patches =
                                IF step = "patch" THEN <<1>> ELSE <<>>]>>
            /\ profile_patches_all' = IF step = "patch" THEN <<1>> ELSE <<>>
            /\ profile' = [profile EXCEPT !.where = found,
                               !.temp = IF found = "clone" THEN "alive" ELSE "none",
                               !.readme = IF ProfileStepWrites(readme, step)
                                          THEN "section" ELSE readme,
                               !.readme_writes = IF ProfileStepWrites(readme, step)
                                                 THEN 1 ELSE 0]
            /\ log' = log \o (IF found = "clone" THEN <<"clone_profile">> ELSE <<>>)
                          \o (IF ProfileStepWrites(readme, step)
                              THEN <<"profile_readme_write">> ELSE <<>>)
    /\ UNCHANGED <<opts, cursor, portfolio, config_files, pathVars, patchVars, callVars>>

\* web/app.py lines 607-625: on_discard_patches
on_discard_patches ==
    /\ pc = "web_pending"
    /\ pc' = "returned"
    /\ all_patches' = <<>>
    /\ profile_patches_all' = <<>>
    /\ profile' = cleanup_temp(profile)
    /\ log' = log \o <<"discard">> \o CleanupLog(profile)
    /\ UNCHANGED <<opts, cursor, results, portfolio, config_files, pathVars, patchVars, callVars>>

\* web/app.py lines 628-746: on_apply_patches, the whole handler.  k patches
\* are written before apply_patches raises (all of them when it does not);
\* every exception but BuildError is caught at the end of the handler, and
\* BuildError reverts the working tree and returns.
on_apply_patches(branch_ok, k, build, commit_ok, push, reached) ==
    /\ pc = "web_pending"
    /\ k \in 0..Len(all_patches)
    /\ LET written_all == branch_ok /\ k = Len(all_patches)
           build_runs == written_all /\ ~opts.skip_build
           failed == build_runs /\ build = "fails"
           timed_out == build_runs /\ build = "times_out"
           committed == written_all /\ ~failed /\ ~timed_out /\ commit_ok
           pushed == committed /\ push \in {"pushed", "pr_raises"}
           pr == committed /\ push = "pushed"
           to_profile == committed /\ push \in {"no_remote", "pushed"}
           with_profile == to_profile /\ profile_patches_all # <<>> /\ profile.where # "none"
       IN  /\ portfolio' = [written |-> IF branch_ok /\ ~failed
                                         THEN {all_patches[i] : i \in 1..k} ELSE {},
                            branch |-> branch_ok, committed |-> committed,
                            pushed |-> pushed, pr |-> pr]
           /\ profile' = cleanup_temp(
                  IF with_profile
                  THEN [profile EXCEPT !.branch = reached >= 1,
                            !.written = IF reached >= 2 THEN Elems(profile_patches_all) ELSE {},
                            !.committed = reached >= 3,
                            !.pushed = reached >= 4]
                  ELSE profile)
           /\ log' = log \o (IF branch_ok THEN <<"create_branch">> ELSE <<>>)
                         \o (IF branch_ok /\ k > 0 THEN <<"write">> ELSE <<>>)
                         \o (IF failed THEN <<"build_failed", "revert">> ELSE <<>>)
                         \o (IF committed THEN <<"commit">> ELSE <<>>)
                         \o (IF pushed THEN <<"push">> ELSE <<>>)
                         \o (IF pr THEN <<"create_pr">> ELSE <<>>)
                         \o (IF with_profile THEN <<"profile_apply">> ELSE <<>>)
                         \o CleanupLog(profile)
           /\ pc' = IF to_profile THEN "done" ELSE "returned"
    /\ all_patches' = <<>>
    /\ profile_patches_all' = <<>>
    /\ UNCHANGED <<opts, cursor, results, config_files, pathVars, patchVars, callVars>>

NextPipe ==
    \/ \E outcome \in {"already_in_portfolio", "patch", "no_patch", "raises"} :
           CollectProject(outcome)
    \/ CollectDone
    \/ \E found \in {"none", "local", "clone", "clone_raises"},
          readme \in {"section", "no_section", "missing"} :
           ResolveProfileRepo(found, readme)
    \/ \E outcome \in {"duplicate", "patch", "no_entry", "raises"} : ProfileStep(outcome)
    \/ ProfileStepsDone
    \/ \E resume_ok \in BOOLEAN : DryRun(resume_ok)
    \/ pc = "mode" /\ \E approved \in Selections(all_patches) : PreviewPortfolio(approved)
    \/ pc = "preview_profile" /\ \E approved \in Selections(profile_patches_all) :
           PreviewProfile(approved)
    \/ NoPreview
    \/ \E ok \in BOOLEAN : CreateBranch(ok)
    \/ \E k \in 0..Len(all_patches) : ApplyAllPatches(k)
    \/ \E outcome \in {"passes", "fails", "times_out"} : RunBuild(outcome)
    \/ RevertAfterBuildFailure
    \/ \E ok \in BOOLEAN : CommitChanges(ok)
    \/ \E outcome \in {"no_remote", "push_raises", "pushed", "pr_raises"} : PushBranch(outcome)
    \/ \E reached \in 0..4 : ApplyProfilePatches(reached)
    \/ \E ok \in BOOLEAN : HandleResume(ok)
    \/ CleanupConfig
    \/ pc = "web_idle" /\
       \E outcome \in {"already_in_portfolio", "patch", "no_patch", "raises"},
          found \in {"none", "local", "clone", "clone_raises"},
          readme \in {"section", "no_section", "missing"},
          step \in {"duplicate", "patch", "no_entry", "raises"} :
           on_approve_config(outcome, found, readme, step)
    \/ on_discard_patches
    \/ pc = "web_pending" /\
       \E branch_ok \in BOOLEAN, k \in 0..Len(all_patches),
          build \in {"passes", "fails", "times_out"}, commit_ok \in BOOLEAN,
          push \in {"no_remote", "push_raises", "pushed", "pr_raises"},
          reached \in 0..4 :
           on_apply_patches(branch_ok, k, build, commit_ok, push, reached)

SpecPipe == InitPipe /\ [][NextPipe]_vars

RunEnded == pc \in {"returned", "raised", "done"}

LogHas(event) == \E i \in DOMAIN log : log[i] = event

\* C3: in a command-line run with --apply and the preview on, no portfolio
\* file is written and no branch is created before preview_and_confirm has
\* returned the approved patches, only approved patches are ever written,
\* and a run without --apply writes no portfolio file at all.
C3_NoMutationBeforeApproval ==
    opts.command # "web" =>
        /\ (opts.do_apply /\ PreviewOn /\ ~LogHas("preview_returned")) =>
               (portfolio.written = {} /\ ~portfolio.branch)
        /\ (opts.do_apply /\ PreviewOn) => portfolio.written \subseteq Elems(all_patches)
        /\ ~opts.do_apply => portfolio = CleanPortfolio

\* A previewed run that was approved, created its branch and wrote a patch.
C3_Witness ==
    /\ opts.command # "web" /\ opts.do_apply /\ PreviewOn
    /\ LogHas("preview_returned")
    /\ portfolio.branch /\ portfolio.written # {}

\* C4: once the user has cancelled at the preview prompt the run has ended
\* with no write in the portfolio working tree, none in the profile-README
\* working tree, and no branch, commit or push in either.
C4_CancelLeavesNoWrite ==
    LogHas("preview_cancelled") =>
        /\ pc = "returned"
        /\ all_patches = <<>>
        /\ portfolio = CleanPortfolio
        /\ profile.readme_writes = 0 /\ profile.written = {}
        /\ ~profile.branch /\ ~profile.committed /\ ~profile.pushed

\* A cancelled run whose profile step had written README.md in a local
\* profile repository, which outlives the run.
C4_Witness ==
    /\ LogHas("preview_cancelled")
    /\ profile.where = "local" /\ profile.readme_writes = 1

C5_WitnessWeb ==
    /\ RunEnded /\ opts.command = "web"
    /\ LogHas("write") /\ LogHas("build_failed") /\ LogHas("revert")

----------------------------------------------------------------------------
(* preview.py: the answers of the user at the prompts of                   *)
(* preview_and_confirm, parsed as _select_patches parses them.             *)

SPACE == " "
COMMA == ","
Digits == {"0", "1", "2"}

\* str.lower, on the characters the prompt is given here
lower(s) ==
    [i \in DOMAIN s |-> CASE s[i] = "N" -> "n" [] s[i] = "W" -> "w" [] s[i] = "S" -> "s"
                            [] s[i] = "A" -> "a" [] s[i] = "P" -> "p"
                            [] OTHER -> s[i]]

\* The whitespace characters that occur in the texts modelled here.
Whitespace == {SPACE, NL}

RECURSIVE lstrip(_)
lstrip(s) == IF s # <<>> /\ Head(s) \in Whitespace THEN lstrip(Tail(s)) ELSE s

RECURSIVE rstrip(_)
rstrip(s) ==
    IF s # <<>> /\ s[Len(s)] \in Whitespace THEN rstrip(SubSeq(s, 1, Len(s) - 1)) ELSE s

\* str.strip
strip(s) == rstrip(lstrip(s))

\* str.split(","): the pieces between the commas, empty pieces included
RECURSIVE split_from(_, _, _)
split_from(s, i, piece) ==
    IF i > Len(s) THEN <<piece>>
    ELSE IF s[i] = COMMA THEN <<piece>> \o split_from(s, i + 1, <<>>)
    ELSE split_from(s, i + 1, Append(piece, s[i]))

split(s) == split_from(s, 1, <<>>)

DigitValue(c) == CASE c = "0" -> 0 [] c = "1" -> 1 [] c = "2" -> 2

\* int(token) raises ValueError unless the token is a run of digits
IsInt(token) == token # <<>> /\ \A i \in DOMAIN token : token[i] \in Digits

RECURSIVE int(_)
int(token) ==
    IF token = <<>> THEN 0
    ELSE 10 * int(SubSeq(token, 1, Len(token) - 1)) + DigitValue(token[Len(token)])

\* patches[idx] of a Python list, a negative idx counting from the end
list_item(list, idx) == IF idx >= 0 THEN list[idx + 1] ELSE list[Len(list) + idx + 1]

\* The loop of _select_patches with `0 <= idx` left out of the range test.
RECURSIVE select_loop_from_end(_, _, _, _, _)
select_loop_from_end(offered, tokens, i, selected, seen) ==
    IF i > Len(tokens) THEN selected
    ELSE LET token == strip(tokens[i])
         IN  IF token = <<>> \/ ~IsInt(token)
             THEN select_loop_from_end(offered, tokens, i + 1, selected, seen)
             ELSE LET idx == int(token) - 1
                  IN  IF idx \in seen
                      THEN select_loop_from_end(offered, tokens, i + 1, selected, seen)
                      ELSE IF idx < Len(offered) /\ -idx <= Len(offered)
                      THEN select_loop_from_end(offered, tokens, i + 1,
                               Append(selected, list_item(offered, idx)), seen \cup {idx})
                      ELSE select_loop_from_end(offered, tokens, i + 1, selected,
                               seen \cup {idx})

\* preview.py lines 190-206: the loop over raw.split(",")
RECURSIVE select_loop(_, _, _, _, _)
select_loop(offered, tokens, i, selected, seen) ==
    IF i > Len(tokens) THEN selected
    ELSE LET token == strip(tokens[i])
         IN  IF token = <<>> \/ ~IsInt(token)
             THEN select_loop(offered, tokens, i + 1, selected, seen)
             ELSE LET idx == int(token) - 1
                  IN  IF idx \in seen
                      THEN select_loop(offered, tokens, i + 1, selected, seen)
                      ELSE IF 0 <= idx /\ idx < Len(offered)
                      THEN select_loop(offered, tokens, i + 1,
                               Append(selected, list_item(offered, idx)), seen \cup {idx})
                      ELSE select_loop(offered, tokens, i + 1, selected, seen \cup {idx})

\* preview.py lines 174-212
_select_patches(offered, raw) ==
    IF lower(strip(raw)) = <<"n", "o", "n", "e">> THEN <<>>
    ELSE select_loop(offered, split(raw), 1, <<>>, {})

\* preview.py lines 129-171, the diff panels left aside
preview_and_confirm(offered, choice, raw) ==
    IF offered = <<>> THEN <<>>
    ELSE IF choice = "n" THEN <<>>
    ELSE IF choice = "y" THEN offered
    ELSE _select_patches(offered, raw)

RawChars == Digits \cup {COMMA, SPACE, "n", "o", "e", "N"}

\* The run is at the preview of cli.py line 583 with one patch per project;
\* the answers the user is going to give are drawn here.
InitSelect ==
    /\ PathUnused
    /\ PatchIdle
    /\ opts \in {o \in CliOptions : /\ o.command = "run" /\ o.do_apply /\ o.preview = "True"
                                    /\ o.skip_build /\ o.no_profile /\ ~o.create_pr}
    /\ pc = "mode"
    /\ cursor = opts.n + 1
    /\ results = [i \in 1..opts.n |-> ProjectResult(i, <<i>>)]
    /\ all_patches = [i \in 1..opts.n |-> i]
    /\ profile_patches_all = <<>>
    /\ portfolio = CleanPortfolio
    /\ profile = NoProfile
    /\ config_files = 1..opts.n
    /\ log = <<>>
    /\ call \in [fn : {"preview_and_confirm"}, choice : {"y", "n"}, raw : {<<>>}]
           \cup [fn : {"preview_and_confirm"}, choice : {"select"},
                 raw : StringsUpTo(RawChars, MaxRawLen)]
    /\ ret = <<>>

\* cli.py lines 581-593 with the answers of `call`
AnswerPreview ==
    PreviewPortfolio(preview_and_confirm(all_patches, call.choice, call.raw))

NextSelect ==
    \/ AnswerPreview
    \/ \E ok \in BOOLEAN : CreateBranch(ok)
    \/ \E k \in 0..Len(all_patches) : ApplyAllPatches(k)

SpecSelect == InitSelect /\ [][NextSelect]_vars

\* The patches offered at the preview of SpecSelect.
Offered == [i \in 1..opts.n |-> i]

\* The numbers the user entered: the comma-separated tokens that int() takes.
EnteredNumbers(raw) ==
    {int(strip(split(raw)[i])) : i \in {j \in DOMAIN split(raw) : IsInt(strip(split(raw)[j]))}}

Answered == LogHas("preview_returned") \/ LogHas("preview_cancelled")

\* C11: preview_and_confirm returns every offered patch on 'y', none on 'n',
\* and on 'select' exactly the offered patches whose 1-based number was
\* entered, each once, other tokens being ignored; nothing that was not
\* offered is returned and nothing that was not returned is written.
C11_ApprovedPatches ==
    /\ ~Answered => (all_patches = Offered /\ portfolio.written = {})
    /\ Answered =>
        /\ call.choice = "y" => all_patches = Offered
        /\ call.choice = "n" => all_patches = <<>>
        /\ call.choice = "select" =>
               /\ Elems(all_patches) = Elems(Offered) \cap EnteredNumbers(call.raw)
               /\ \A i, j \in DOMAIN all_patches : i # j => all_patches[i] # all_patches[j]
        /\ Elems(all_patches) \subseteq Elems(Offered)
        /\ portfolio.written \subseteq Elems(all_patches)

\* The user selected "2,1" of two offered patches and the two were written.
C11_Witness ==
    /\ call.choice = "select" /\ LogHas("preview_returned")
    /\ all_patches = <<2, 1>> /\ portfolio.written = {1, 2}

\* The user entered a number that is out of range next to one that is not.
C11_WitnessOutOfRange ==
    /\ call.choice = "select" /\ LogHas("preview_returned")
    /\ all_patches = <<2>> /\ 0 \in EnteredNumbers(call.raw)

----------------------------------------------------------------------------
(* llm.py: invoke_with_retry, one call of the generator per step.          *)

\* The steps of the pipeline that call the generator: cli.py lines 390, 405
\* and 419 (_collect_for_project), profile.py line 513.
GeneratorSteps ==
    {"run_analysis", "run_generation", "generate_focused_entry", "generate_profile_entry"}

\* llm.py line 279 and profile.py line 513 call the generator through
\* invoke_with_retry; llm.py line 437 (run_generation) and lines 652-1182
\* (the _generate_focused_*_entry functions) call .invoke directly.
through_invoke_with_retry(fn) ==
    fn \in {"invoke_with_retry", "run_analysis", "generate_profile_entry"}

\* `call` holds max_retries as _get_max_retries() returns it and what the
\* generator is going to do at each of its calls, in order.
InitRetry ==
    /\ PathUnused
    /\ PatchIdle
    /\ PipeIdle
    /\ call \in [fn : {"invoke_with_retry"} \cup GeneratorSteps, max_retries : 0..MaxRetries,
                 outcomes : [1..(MaxRetries + 1) -> {"returns", "raises"}]]
    /\ ret = [status |-> "running", calls |-> 0, slept |-> 0]

\* stop_after_attempt(max_retries), asked after a failed attempt
stop_after_attempt(max_attempt_number, attempt_number) ==
    attempt_number >= max_attempt_number

\* llm.py lines 165-184: _call() makes one attempt; the attempt that returns
\* ends the call, the failed attempt at which stop_after_attempt holds is
\* re-raised and wrapped in RuntimeError, any other failed attempt is
\* followed by a sleep and a new attempt.
Attempt ==
    /\ through_invoke_with_retry(call.fn) /\ ret.status = "running"
    /\ LET attempt_number == ret.calls + 1
       IN  ret' = IF call.outcomes[attempt_number] = "returns"
                  THEN [ret EXCEPT !.status = "returned", !.calls = attempt_number]
                  ELSE IF stop_after_attempt(call.max_retries, attempt_number)
                  THEN [ret EXCEPT !.status = "RuntimeError", !.calls = attempt_number]
                  ELSE [ret EXCEPT !.status = "sleeping", !.calls = attempt_number]
    /\ UNCHANGED <<call, pathVars, patchVars, pipeVars>>

\* wait_exponential and before_sleep between two attempts
Sleep ==
    /\ through_invoke_with_retry(call.fn) /\ ret.status = "sleeping"
    /\ ret' = [ret EXCEPT !.status = "running", !.slept = @ + 1]
    /\ UNCHANGED <<call, pathVars, patchVars, pipeVars>>

\* llm.py line 437, 652, ...: structured_llm.invoke / llm.invoke, called once;
\* what it raises leaves the step as it is.
DirectInvoke ==
    /\ ~through_invoke_with_retry(call.fn) /\ ret.status = "running"
    /\ ret' = [ret EXCEPT !.calls = 1,
                   !.status = IF call.outcomes[1] = "returns" THEN "returned" ELSE "raised"]
    /\ UNCHANGED <<call, pathVars, patchVars, pipeVars>>

NextRetry ==
    \/ Attempt
    \/ Sleep
    \/ DirectInvoke

SpecRetry == InitRetry /\ [][NextRetry]_vars

\* The calls made so far all failed.
AllFailed == \A i \in 1..ret.calls : call.outcomes[i] = "raises"

\* C12: invoke_with_retry calls the generator at most N = max_retries times,
\* returns at the first call that succeeds, and raises RuntimeError after N
\* consecutive failures.
C12_AtMostNCalls ==
    call.fn = "invoke_with_retry" =>
    /\ ret.calls <= call.max_retries
    /\ ret.status = "returned" =>
           /\ call.outcomes[ret.calls] = "returns"
           /\ \A i \in 1..(ret.calls - 1) : call.outcomes[i] = "raises"
    /\ ret.status = "RuntimeError" => (ret.calls = call.max_retries /\ AllFailed)

\* The same with N read as at least one attempt, which is what holds.
C12_AtMostNCallsFromOne ==
    call.fn = "invoke_with_retry" =>
    /\ ret.calls <= IF call.max_retries < 1 THEN 1 ELSE call.max_retries
    /\ ret.slept = IF ret.status = "running" THEN ret.calls ELSE ret.calls - 1
    /\ ret.status = "returned" =>
           /\ call.outcomes[ret.calls] = "returns"
           /\ \A i \in 1..(ret.calls - 1) : call.outcomes[i] = "raises"
    /\ ret.status = "RuntimeError" =>
           /\ ret.calls = (IF call.max_retries < 1 THEN 1 ELSE call.max_retries)
           /\ AllFailed

\* AUTOFOLIO_MAX_RETRIES=0 and the generator was called.
C12_Witness ==
    /\ call.fn = "invoke_with_retry"
    /\ call.max_retries = 0 /\ ret.calls = 1 /\ ret.status = "RuntimeError"

\* The default: three failed calls, then RuntimeError.
C12_WitnessDefault ==
    /\ call.fn = "invoke_with_retry"
    /\ call.max_retries = 3 /\ ret.calls = 3 /\ ret.status = "RuntimeError"

\* C13: the failure of a generator call of any step of the pipeline surfaces
\* only after the call was tried max_retries times.
C13_EveryCallRetried ==
    (call.fn \in GeneratorSteps /\ ret.status \in {"raised", "RuntimeError"}) =>
        ret.calls >= call.max_retries

\* run_generation with the default of three attempts failed at its first call.
C13_Witness ==
    /\ call.fn = "run_generation" /\ call.max_retries = 3
    /\ ret.status = "raised" /\ ret.calls = 1

\* What holds: the analysis and the profile entry are retried.
C13_AnalysisAndProfileRetried ==
    (call.fn \in {"run_analysis", "generate_profile_entry"}
        /\ ret.status \in {"raised", "RuntimeError"}) =>
        (ret.status = "RuntimeError" /\ ret.calls >= call.max_retries)

\* The projects whose collected result holds a patch.
ProjectsWithPatches == {results[i].project : i \in {j \in DOMAIN results : results[j].patches # <<>>}}

\* C14: in a run over two or more projects a project of the loop, failed or
\* not, leaves the run in the loop at the next project with the results
\* collected so far kept, and the loop hands the patches of every collected
\* result on; in a single-project run the failure ends the run.
C14_FailureFatalForOneProject ==
    /\ [](~is_batch /\ LogHas("collect_failed") =>
            (pc = "raised" /\ results = <<>> /\ all_patches = <<>>
                /\ portfolio = CleanPortfolio))
    /\ [](pc = "profile" => Elems(all_patches) = ProjectsWithPatches)
    /\ [][(pc = "collect" /\ cursor <= opts.n /\ is_batch) =>
            /\ pc' = "collect" /\ cursor' = cursor + 1
            /\ \/ results' = results
               \/ \E r \in {ProjectResult(cursor, <<cursor>>), ProjectResult(cursor, <<>>)} :
                      results' = Append(results, r)
            /\ log' # log => results' = results]_vars

\* Of two projects the first failed, the second was collected and its patch
\* is handed on.
C14_Witness ==
    /\ opts.n = 2 /\ pc = "profile"
    /\ log = <<"collect_failed">>
    /\ results = <<ProjectResult(2, <<2>>)>> /\ all_patches = <<2>>

\* Of two projects the first was collected, the second failed, and the patch
\* of the first is handed on.
C14_WitnessKept ==
    /\ opts.n = 2 /\ pc = "profile"
    /\ log = <<"collect_failed">>
    /\ results = <<ProjectResult(1, <<1>>)>> /\ all_patches = <<1>>

\* A single project failed and the run ended.
C14_WitnessSingle ==
    /\ opts.n = 1 /\ pc = "raised" /\ log = <<"collect_failed">>

----------------------------------------------------------------------------
(* detector.py: detect_project_listing, one scanner per step.  What each   *)
(* scanner would find in the repository is drawn in Init.                  *)

\* detector.py lines 999-1011: the scanners in the order they are called
ScannerOrder == <<"code", "html", "data", "markdown", "directory">>

\* A scanner that returns None.
NoHint == [format |-> "none", entry_count |-> 0]

\* The ProjectListingHints a scanner returns, told apart by entry_count.
Hints(format) == {[format |-> format, entry_count |-> n] : n \in 2..MaxEntries}

InitListing ==
    /\ PathUnused
    /\ PatchIdle
    /\ PipeIdle
    /\ call \in {c \in [fn : {"detect_project_listing"},
                        found : [DOMAIN ScannerOrder ->
                                    {NoHint} \cup UNION {Hints(ScannerOrder[i]) : i \in DOMAIN ScannerOrder}]] :
                    \A i \in DOMAIN ScannerOrder : c.found[i].format \in {"none", ScannerOrder[i]}}
    /\ ret = [status |-> "scanning", called |-> 0, hint |-> NoHint]

\* The result of the last scanner is returned whatever it is.
returns_last_only(i, result) == i = Len(ScannerOrder)

\* `if result is not None: return result`; the last scanner's result is
\* returned as it is (line 1011).
returns_hint(i, result) == result # NoHint \/ i = Len(ScannerOrder)

\* detector.py lines 999-1011: the next scanner is called
CallScanner ==
    /\ call.fn = "detect_project_listing" /\ ret.status = "scanning"
    /\ LET i == ret.called + 1
           result == call.found[i]
       IN  ret' = IF returns_hint(i, result)
                  THEN [status |-> "returned", called |-> i, hint |-> result]
                  ELSE [ret EXCEPT !.called = i]
    /\ UNCHANGED <<call, pathVars, patchVars, pipeVars>>

NextListing == CallScanner

SpecListing == InitListing /\ [][NextListing]_vars

\* The scanners that find a listing in this repository.
Qualifying == {i \in DOMAIN ScannerOrder : call.found[i] # NoHint}

\* C15: detect_project_listing returns the hint of the first scanner, in the
\* order code, html, data, markdown, directory, that finds a listing, without
\* calling a later scanner; it returns one hint, or none when none qualifies.
C15_FirstScannerWins ==
    /\ ScannerOrder = <<"code", "html", "data", "markdown", "directory">>
    /\ ret.status = "returned" =>
        IF Qualifying = {}
        THEN ret.hint = NoHint /\ ret.called = Len(ScannerOrder)
        ELSE /\ ret.hint = call.found[Min(Qualifying)]
             /\ ret.called = Min(Qualifying)
             /\ ret.hint.format = ScannerOrder[Min(Qualifying)]
    /\ ret.status = "scanning" => (ret.hint = NoHint /\ \A i \in 1..ret.called : i \notin Qualifying)

\* The html scanner won although the markdown scanner would have found more
\* entries.
C15_Witness ==
    /\ ret.status = "returned" /\ ret.hint.format = "html"
    /\ call.found[4].entry_count > ret.hint.entry_count

\* No scanner qualified.
C15_WitnessNone ==
    /\ ret.status = "returned" /\ ret.hint = NoHint /\ ret.called = 5

----------------------------------------------------------------------------
(* detector.py: _detect_project_listing_code on one code file that holds   *)
(* one named array of object literals.  The array is rendered as text and  *)
(* the keys are counted in the text as the regular expressions count them. *)

TITLE == <<"t", "i", "t", "l", "e">>
NAME == <<"n", "a", "m", "e">>
DESCRIPTION == <<"d", "e", "s", "c", "r", "i", "p", "t", "i", "o", "n">>
SUBTITLE == <<"s", "u", "b", "t", "i", "t", "l", "e">>

\* The keys an object literal of the array may have, in the order written.
KeyOrder == <<TITLE, SUBTITLE, NAME, DESCRIPTION>>

\* The identifiers the array is declared with.
Identifiers == {<<"p", "r", "o", "j", "e", "c", "t", "s">>, <<"m", "y", "W", "o", "r", "k">>, <<"d", "a", "t", "a">>}

\* detector.py line 499
project_keywords ==
    {<<"p", "r", "o", "j", "e", "c", "t">>, <<"w", "o", "r", "k">>, <<"p", "o", "r", "t", "f", "o", "l", "i", "o">>, <<"c", "a", "r", "d">>, <<"i", "t", "e", "m">>, <<"f", "o", "l", "i", "o">>}

\* One object literal with the keys of `keys`: {title:"v",description:"v",}
RECURSIVE render_object_from(_, _)
render_object_from(keys, i) ==
    IF i > Len(KeyOrder) THEN <<"}">>
    ELSE (IF KeyOrder[i] \in keys THEN KeyOrder[i] \o <<":", "\"", "v", "\"", ",">> ELSE <<>>)
         \o render_object_from(keys, i + 1)

render_object(keys) == <<"{">> \o render_object_from(keys, 1)

\* The array block of n such object literals, brackets included.
RECURSIVE render_objects(_, _)
render_objects(keys, n) ==
    IF n = 0 THEN <<>> ELSE render_object(keys) \o <<",">> \o render_objects(keys, n - 1)

render_array(keys, n) == <<"[">> \o render_objects(keys, n) \o <<"]">>

\* The end of the run of whitespace that starts at position i.
RECURSIVE skip_spaces(_, _)
skip_spaces(text, i) ==
    IF i <= Len(text) /\ text[i] \in Whitespace THEN skip_spaces(text, i + 1) ELSE i

\* A match of word\s*[:=] starts at position i.
key_matches_at(text, word, i) ==
    /\ i + Len(word) - 1 <= Len(text)
    /\ SubSeq(text, i, i + Len(word) - 1) = word
    /\ LET j == skip_spaces(text, i + Len(word))
       IN  j <= Len(text) /\ text[j] \in {":", "="}

\* len(re.findall(word + r'\s*[:=]', text)): the matches are counted from
\* left to right without overlap, and two matches of one of the words
\* counted here cannot overlap.
count_key(text, word) == Cardinality({i \in DOMAIN text : key_matches_at(text, word, i)})

\* any(kw in var_name for kw in project_keywords)
has_project_keyword(var_name) == \E kw \in project_keywords : contains(var_name, kw)

\* detector.py lines 494-598 for the file: the candidate of the named array
\* and the hint built from it, or None.
_detect_project_listing_code(identifier, keys, n) ==
    LET var_name == lower(identifier)
        array_block == render_array(keys, n)
        title_count == count_key(array_block, TITLE)
        desc_count == count_key(array_block, DESCRIPTION)
    IN  IF has_project_keyword(var_name) /\ title_count >= 2 /\ desc_count >= 2 /\ n > 0
        THEN [format |-> "code", variable_name |-> identifier, entry_count |-> title_count]
        ELSE [format |-> "none", variable_name |-> <<>>, entry_count |-> 0]

InitCode ==
    /\ PathUnused
    /\ PatchIdle
    /\ PipeIdle
    /\ call \in [fn : {"_detect_project_listing_code"}, identifier : Identifiers,
                 keys : SUBSET Elems(KeyOrder), n : 0..MaxEntries]
    /\ ret = [status |-> "not_called"]

DetectProjectListingCode ==
    /\ call.fn = "_detect_project_listing_code" /\ ret.status = "not_called"
    /\ ret' = [status |-> "returned",
               hint |-> _detect_project_listing_code(call.identifier, call.keys, call.n)]
    /\ UNCHANGED <<call, pathVars, patchVars, pipeVars>>

NextCode == DetectProjectListingCode

SpecCode == InitCode /\ [][NextCode]_vars

\* C16: an array of at least 2 object literals with the same keys, declared
\* with an identifier that contains a domain keyword, whose entries have a
\* title or name key and a description key, is returned with entry_count
\* equal to the number of its object literals.
C16_CodeArrayReturned ==
    (/\ ret.status = "returned"
     /\ call.n >= 2
     /\ has_project_keyword(lower(call.identifier))
     /\ (TITLE \in call.keys \/ NAME \in call.keys)
     /\ DESCRIPTION \in call.keys) =>
        (ret.hint.format = "code" /\ ret.hint.entry_count = call.n)

\* const projects = [{name, description}, {name, description}] was scanned.
C16_Witness ==
    /\ ret.status = "returned" /\ call.n = 2
    /\ call.keys = {NAME, DESCRIPTION} /\ has_project_keyword(call.identifier)
    /\ ret.hint.format = "none"

\* An array whose entries have title, subtitle and description keys.
C16_WitnessSubtitle ==
    /\ ret.status = "returned" /\ call.n = 2
    /\ call.keys = {TITLE, SUBTITLE, DESCRIPTION} /\ has_project_keyword(call.identifier)
    /\ ret.hint.entry_count = 4

\* What holds: with title and description keys and no other key that ends
\* in "title" the array is returned with its number of object literals.
C16_TitleArraysReturned ==
    (/\ ret.status = "returned"
     /\ call.n >= 2
     /\ has_project_keyword(lower(call.identifier))
     /\ TITLE \in call.keys /\ SUBTITLE \notin call.keys
     /\ DESCRIPTION \in call.keys) =>
        (ret.hint.format = "code" /\ ret.hint.entry_count = call.n)

----------------------------------------------------------------------------
(* detector.py: detect_stack collects the file tree, then the key files    *)
(* and the scanners read files.  A path is the sequence of its parts.      *)

\* detector.py lines 98-104
skip_dirs ==
    {".git", "node_modules", "__pycache__", ".next", "dist", "build",
     ".hugo_build.lock", "_site", ".astro", "venv", ".venv", "env", ".svelte-kit",
     ".nuxt", ".output", ".cache", ".parcel-cache", "out", ".angular", ".vercel",
     ".netlify", "vendor"}

\* The files a repository of SpecTree may hold, in the order sorted() gives
\* their paths.
SortedFiles ==
    << <<".git", "config">>, <<"build">>, <<"index.html">>, <<"node_modules", "m.ts">>,
       <<"projects.json">>, <<"src", "dist", "d.ts">>, <<"src", "p.ts">>, <<"work.md">> >>

\* The resolved repo_path: one outside, one beneath a directory named build.
RepoPaths == { <<"/", "home", "site">>, <<"/", "build", "site">> }

\* Path(fpath).suffix
suffix(fpath) ==
    LET name == fpath[Len(fpath)]
    IN  CASE name \in {"m.ts", "d.ts", "p.ts"} -> ".ts"
          [] name = "index.html" -> ".html"
          [] name = "projects.json" -> ".json"
          [] name = "work.md" -> ".md"
          [] OTHER -> ""

\* Only the first part of the path below the repository is looked at.
is_skipped_top_level(repo_path, rel) == rel[1] \in skip_dirs

\* detector.py line 106: any(part in skip_dirs for part in item.parts), item
\* being repo_path joined with the path below it
is_skipped(repo_path, rel) == \E part \in Elems(repo_path \o rel) : part \in skip_dirs

\* detector.py lines 96-114
_collect_file_tree(repo_path, files) ==
    SelectSeq(SortedFiles, LAMBDA rel : rel \in files /\ ~is_skipped(repo_path, rel))

\* detector.py lines 387-428: the files of the tree _find_key_files reads:
\* the KEY_FILE_PATTERNS, the html files, the files named after a keyword
key_files_read(file_tree) ==
    {rel \in Elems(file_tree) :
        suffix(rel) = ".html" \/ rel[Len(rel)] \in {"projects.json", "work.md"}}

\* The suffixes of CODE_, HTML_, DATA_ and CONTENT_EXTENSIONS a file of
\* SortedFiles can have, per scanner; the directory scanner reads no file.
scanner_suffixes(scanner) ==
    CASE scanner = "code" -> {".ts"}
      [] scanner = "html" -> {".html"}
      [] scanner = "data" -> {".json"}
      [] scanner = "markdown" -> {".md"}
      [] OTHER -> {}

\* `for fpath in file_tree: ... _read_text_safe(repo_path / fpath)` of a scanner
scanner_reads(scanner, file_tree) ==
    {rel \in Elems(file_tree) : suffix(rel) \in scanner_suffixes(scanner)}

InitTree ==
    /\ PathUnused
    /\ PatchIdle
    /\ PipeIdle
    /\ call \in [fn : {"detect_stack"}, repo_path : RepoPaths, files : SUBSET Elems(SortedFiles)]
    /\ ret = [status |-> "start", file_tree |-> <<>>, reads |-> {}, called |-> 0]

\* detector.py line 129
CollectFileTree ==
    /\ call.fn = "detect_stack" /\ ret.status = "start"
    /\ ret' = [ret EXCEPT !.status = "collected",
                   !.file_tree = _collect_file_tree(call.repo_path, call.files)]
    /\ UNCHANGED <<call, pathVars, patchVars, pipeVars>>

\* detector.py line 171
FindKeyFiles ==
    /\ call.fn = "detect_stack" /\ ret.status = "collected"
    /\ ret' = [ret EXCEPT !.status = "scanning", !.reads = @ \cup key_files_read(ret.file_tree)]
    /\ UNCHANGED <<call, pathVars, patchVars, pipeVars>>

\* detector.py line 172: the next scanner of detect_project_listing runs
RunScanner ==
    /\ call.fn = "detect_stack" /\ ret.status = "scanning" /\ ret.called < Len(ScannerOrder)
    /\ ret' = [ret EXCEPT !.called = @ + 1,
                   !.reads = @ \cup scanner_reads(ScannerOrder[ret.called + 1], ret.file_tree)]
    /\ UNCHANGED <<call, pathVars, patchVars, pipeVars>>

\* detector.py lines 174-181: a scanner found a listing, or none did
ReturnDetection ==
    /\ call.fn = "detect_stack" /\ ret.status = "scanning" /\ ret.called >= 1
    /\ ret' = [ret EXCEPT !.status = "returned"]
    /\ UNCHANGED <<call, pathVars, patchVars, pipeVars>>

NextTree ==
    \/ CollectFileTree
    \/ FindKeyFiles
    \/ RunScanner
    \/ ReturnDetection

SpecTree == InitTree /\ [][NextTree]_vars

\* C17: no path of the file tree has an excluded directory among its parts,
\* nothing is read before the tree is collected, and the key files and the
\* scanners read files of the tree only.
C17_ExcludedNeverScanned ==
    /\ \A rel \in Elems(ret.file_tree) :
           rel \in call.files /\ \A i \in DOMAIN rel : rel[i] \notin skip_dirs
    /\ ret.reads \subseteq Elems(ret.file_tree)
    /\ ret.status = "start" => (ret.reads = {} /\ ret.called = 0)
    /\ ret.called > 0 => ret.status \in {"scanning", "returned"}

\* A repository with files under node_modules and src/dist was scanned and
\* its other code file was read.
C17_Witness ==
    /\ ret.status = "returned"
    /\ {<<"node_modules", "m.ts">>, <<"src", "dist", "d.ts">>, <<"src", "p.ts">>} \subseteq call.files
    /\ <<"src", "p.ts">> \in ret.reads

----------------------------------------------------------------------------
(* profile.py: generate_profile_entry.  The answer of the generator is a   *)
(* text of a few lines; the template entry is kept abstract here.          *)

APOSTROPHE == "'"
\* The grave accent, by its code point: a string of the module cannot hold
\* the character itself.
BACKTICK == "U+0060"
FENCE == <<BACKTICK, BACKTICK, BACKTICK>>
PIPE == "|"

\* str.splitlines()
plain_splitlines(s) ==
    [i \in DOMAIN splitlines(s) |->
        SelectSeq(splitlines(s)[i], LAMBDA c : c # NL)]

\* "\n".join(lines)
RECURSIVE join_lines(_)
join_lines(lines) ==
    IF lines = <<>> THEN <<>>
    ELSE IF Len(lines) = 1 THEN lines[1]
    ELSE lines[1] \o <<NL>> \o join_lines(Tail(lines))

\* str.count("|")
count_pipes(s) == Cardinality({i \in DOMAIN s : s[i] = PIPE})

\* profile.py lines 539-542
artifacts ==
    {<<"h", "e", "r", "e", " ", "i", "s">>,
     <<"h", "e", "r", "e", APOSTROPHE, "s">>,
     <<"s", "u", "r", "e", ",">>,
     <<"c", "e", "r", "t", "a", "i", "n", "l", "y">>,
     <<"i", APOSTROPHE, "v", "e", " ", "g", "e", "n", "e", "r", "a", "t", "e", "d">>,
     <<"b", "e", "l", "o", "w", " ", "i", "s">>,
     <<"t", "h", "e", " ", "f", "o", "l", "l", "o", "w", "i", "n", "g">>}

\* The answer is returned with its fence lines left in.
_llm_generate_entry_keeping_fences(response) ==
    IF response.raises THEN NoneStr
    ELSE IF strip(response.content) # <<>> THEN strip(response.content) ELSE NoneStr

\* profile.py lines 497-529: None when the call raises or the text is empty
_llm_generate_entry(response) ==
    IF response.raises THEN NoneStr
    ELSE LET raw == strip(response.content)
             unfenced == strip(join_lines(SelectSeq(plain_splitlines(raw),
                                  LAMBDA l : ~startswith(strip(l), FENCE))))
             text == IF startswith(raw, FENCE) THEN unfenced ELSE raw
         IN  IF text # <<>> THEN text ELSE NoneStr

\* re.match(r"^\s*\|.*\|", entry.strip()): a pipe, then another pipe before
\* the end of the first line
starts_with_pipe_row(entry) ==
    LET e == strip(entry)
    IN  /\ e # <<>> /\ e[1] = PIPE
        /\ \E j \in 2..Len(e) : e[j] = PIPE /\ \A k \in 2..j : e[k] # NL

\* profile.py lines 560-567
_validate_table_entry(entry, sample) ==
    /\ ~(count_pipes(sample) > 0 /\ count_pipes(entry) # count_pipes(sample))
    /\ starts_with_pipe_row(entry)

\* The tags <p> and </p> of the texts modelled here, as re.findall finds them.
open_tags(entry) ==
    {i \in DOMAIN entry : /\ i + 2 <= Len(entry)
                          /\ entry[i] = "<" /\ entry[i + 1] = "p"
                          /\ entry[i + 2] \in Whitespace \cup {">"}}

close_tags(entry) ==
    {i \in DOMAIN entry : /\ i + 3 <= Len(entry)
                          /\ SubSeq(entry, i, i + 3) = <<"<", "/", "p", ">">>}

\* profile.py lines 570-587
_validate_html_entry(entry) ==
    Cardinality(close_tags(entry)) >= Cardinality(open_tags(entry))

\* profile.py lines 590-595
_validate_badge_entry(entry) ==
    /\ contains(entry, <<"!", "[">>)
    /\ contains(entry, <<"]", "(", "h", "t", "t", "p">>)

\* The check of the section's format (profile.py lines 548-557).
structural_check(entry, fmt, sample) ==
    CASE fmt = "table" -> _validate_table_entry(entry, sample)
      [] fmt = "html_cards" -> _validate_html_entry(entry)
      [] fmt = "badge_grid" -> _validate_badge_entry(entry)
      [] OTHER -> TRUE

\* profile.py lines 532-557
validate_profile_entry(entry, fmt, sample) ==
    /\ entry # <<>> /\ strip(entry) # <<>>
    /\ ~contains(entry, FENCE)
    /\ \A artifact \in artifacts : ~startswith(lower(entry), artifact)
    /\ structural_check(entry, fmt, sample)

\* profile.py lines 478-494
generate_profile_entry(response, fmt, sample) ==
    LET llm_entry == _llm_generate_entry(response)
    IN  IF llm_entry # NoneStr /\ validate_profile_entry(llm_entry, fmt, sample)
        THEN [source |-> "generated", text |-> llm_entry]
        ELSE [source |-> "template", text |-> <<>>]

\* The lines the answer of the generator is made of.
AnswerLines ==
    {<<BACKTICK, BACKTICK, BACKTICK>>,
     <<" ", BACKTICK, BACKTICK, BACKTICK>>,
     <<"a">>,
     <<"|", "a", "|">>,
     <<"|", "a", "|", "a", "|">>,
     <<"S", "u", "r", "e", ",", " ", "a">>,
     <<"a", BACKTICK, BACKTICK, BACKTICK>>,
     <<"!", "[", "a", "]", "(", "h", "t", "t", "p", ")">>,
     <<"<", "p", ">", "a", "<", "/", "p", ">">>,
     <<"<", "p", ">", "a">>,
     <<>>}

ProfileFormats == {"table", "badge_grid", "html_cards", "heading_blocks", "bullet_list", "plain"}

\* The texts of one to n lines of AnswerLines.
RECURSIVE AnswersUpTo(_)
AnswersUpTo(n) ==
    IF n = 1 THEN AnswerLines
    ELSE AnswersUpTo(n - 1) \cup
         {t \o <<NL>> \o l : t \in AnswersUpTo(n - 1), l \in AnswerLines}

InitEntry ==
    /\ PathUnused
    /\ PatchIdle
    /\ PipeIdle
    /\ call \in [fn : {"generate_profile_entry"}, format : ProfileFormats,
                 sample : {<<"|", "a", "|", "a", "|">>, <<"-", " ", "a">>},
                 response : [raises : {FALSE}, content : AnswersUpTo(MaxLines)]
                            \cup [raises : {TRUE}, content : {<<>>}]]
    /\ ret = [source |-> "not_called", text |-> <<>>]

GenerateProfileEntry ==
    /\ call.fn = "generate_profile_entry" /\ ret.source = "not_called"
    /\ ret' = generate_profile_entry(call.response, call.format, call.sample)
    /\ UNCHANGED <<call, pathVars, patchVars, pipeVars>>

NextEntry == GenerateProfileEntry

SpecEntry == InitEntry /\ [][NextEntry]_vars

\* The text is non-empty, has no code fence, begins with no listed preamble
\* and passes the check of the section's format.
Acceptable(text) ==
    /\ strip(text) # <<>>
    /\ \A i \in 1..(Len(text) - 2) : SubSeq(text, i, i + 2) # FENCE
    /\ \A artifact \in artifacts : ~startswith(lower(text), artifact)
    /\ structural_check(text, call.format, call.sample)

\* The generated text without the lines that begin with a code fence.
WithoutFenceLines(text) ==
    strip(join_lines(SelectSeq(plain_splitlines(text), LAMBDA l : ~startswith(strip(l), FENCE))))

\* C18 as stated: the generated text is returned when it is acceptable as it
\* is, the template entry in every other case.
C18_GeneratedOrTemplate ==
    ret.source # "not_called" =>
        IF ~call.response.raises /\ Acceptable(strip(call.response.content))
        THEN ret = [source |-> "generated", text |-> strip(call.response.content)]
        ELSE ret.source = "template"

\* C18, amended: generate_profile_entry returns the generated text, stripped
\* and, when it begins with a code fence, without its fence lines, when that
\* text is acceptable; the template entry in every other case, the call that
\* raises included.
C18_CleanedOrTemplate ==
    ret.source # "not_called" =>
        LET raw == strip(call.response.content)
            text == IF startswith(raw, FENCE) THEN WithoutFenceLines(raw) ELSE raw
        IN  IF ~call.response.raises /\ Acceptable(text)
            THEN ret = [source |-> "generated", text |-> text]
            ELSE ret.source = "template"

\* A table row wrapped in a code fence was returned without the fence.
C18_Witness ==
    /\ ret.source = "generated" /\ call.format = "table"
    /\ startswith(call.response.content, FENCE)
    /\ ret.text = <<"|", "a", "|", "a", "|">>

\* The generator raised and the template entry was returned.
C18_WitnessRaises ==
    /\ call.response.raises /\ ret.source = "template"

----------------------------------------------------------------------------
(* profile.py: _construct_table_entry on the sample row that               *)
(* extract_sample_entry returns for a table section.                       *)

\* str.split(sep) for a separator of one character
RECURSIVE split_on(_, _, _)
split_on(s, sep, piece) ==
    IF s = <<>> THEN <<piece>>
    ELSE IF Head(s) = sep THEN <<piece>> \o split_on(Tail(s), sep, <<>>)
    ELSE split_on(Tail(s), sep, Append(piece, Head(s)))

\* sep.join(items)
RECURSIVE join_with(_, _)
join_with(sep, items) ==
    IF items = <<>> THEN <<>>
    ELSE IF Len(items) = 1 THEN items[1]
    ELSE items[1] \o sep \o join_with(sep, Tail(items))

\* re.match(r"^\s*\|[\s\-:|]+\|", line): a separator row
is_separator_row(line) ==
    LET e == lstrip(line)
    IN  /\ e # <<>> /\ e[1] = PIPE
        /\ \E j \in 3..Len(e) :
              /\ e[j] = PIPE
              /\ \A k \in 2..(j - 1) : e[k] \in Whitespace \cup {"-", ":", PIPE}

\* profile.py lines 307-313: the lines extract_sample_entry keeps as data rows
is_data_row(line) ==
    /\ LET e == lstrip(line)
       IN  e # <<>> /\ e[1] = PIPE /\ \E j \in 2..Len(e) : e[j] = PIPE
    /\ ~is_separator_row(line)

\* profile.py lines 617-618: the cells that are not blank
col_count_of(sample) ==
    Len(SelectSeq(split_on(sample, PIPE, <<>>), LAMBDA c : strip(c) # <<>>))

\* profile.py lines 620-632
table_values(project, col_count) ==
    LET first == IF project.repo_url # <<>>
                 THEN <<"[">> \o project.title \o <<"]", "(">> \o project.repo_url \o <<")">>
                 ELSE project.title
        tech == IF project.tech_stack # <<>>
                THEN join_with(<<COMMA, SPACE>>, project.tech_stack) ELSE <<>>
    IN  [i \in 1..col_count |->
            CASE i = 1 -> first [] i = 2 -> project.description [] i = 3 -> tech
              [] OTHER -> <<>>]

\* profile.py lines 616-634
_construct_table_entry(project, sample) ==
    <<PIPE, SPACE>>
        \o join_with(<<SPACE, PIPE, SPACE>>, table_values(project, col_count_of(sample)))
        \o <<SPACE, PIPE>>

\* The characters of a sample row.
SampleChars == {PIPE, SPACE, "a"}

RECURSIVE TextsUpTo(_, _)
TextsUpTo(chars, n) ==
    IF n = 0 THEN {<<>>}
    ELSE TextsUpTo(chars, n - 1) \cup
         {Append(t, c) : t \in {u \in TextsUpTo(chars, n - 1) : Len(u) = n - 1}, c \in chars}

SampleRows == {t \in TextsUpTo(SampleChars, MaxSampleLen) : is_data_row(t)}

Projects ==
    [title : {<<"T">>, <<"T", PIPE, "U">>},
     description : {<<"D">>, <<>>},
     repo_url : {<<>>, <<"h">>},
     tech_stack : {<<>>, << <<"x">> >>, << <<"x">>, <<"y">> >>}]

InitTable ==
    /\ PathUnused
    /\ PatchIdle
    /\ PipeIdle
    /\ call \in [fn : {"_construct_table_entry"}, project : Projects, sample : SampleRows]
    /\ ret = [status |-> "not_called", entry |-> <<>>]

ConstructTableEntry ==
    /\ call.fn = "_construct_table_entry" /\ ret.status = "not_called"
    /\ ret' = [status |-> "returned",
               entry |-> _construct_table_entry(call.project, call.sample)]
    /\ UNCHANGED <<call, pathVars, patchVars, pipeVars>>

NextTable == ConstructTableEntry

SpecTable == InitTable /\ [][NextTable]_vars

\* C19: the entry built from a table sample row has exactly as many pipe
\* characters as the sample, whatever its cells and the project's fields.
C19_SamePipeCount ==
    ret.status = "returned" => count_pipes(ret.entry) = count_pipes(call.sample)

\* An entry was built for a sample row with an empty cell.
C19_Witness ==
    /\ ret.status = "returned"
    /\ call.sample = <<PIPE, "a", PIPE, PIPE>>
    /\ count_pipes(ret.entry) = 2

\* An entry was built for a project whose title holds a pipe.
C19_WitnessTitle ==
    /\ ret.status = "returned"
    /\ call.sample = <<PIPE, "a", PIPE, "a", PIPE>>
    /\ call.project.title = <<"T", PIPE, "U">>
    /\ count_pipes(ret.entry) = 4

\* The row begins and ends with a pipe and no cell between two pipes is blank.
FullRow(sample) ==
    LET cells == split_on(strip(sample), PIPE, <<>>)
    IN  /\ Len(cells) >= 3
        /\ cells[1] = <<>> /\ cells[Len(cells)] = <<>>
        /\ \A i \in 2..(Len(cells) - 1) : strip(cells[i]) # <<>>

\* The pipe count is kept for a full row and project fields without a pipe.
C19_FullRowsKeepPipes ==
    (/\ ret.status = "returned"
     /\ FullRow(call.sample)
     /\ count_pipes(call.project.title) = 0)
        => count_pipes(ret.entry) = count_pipes(call.sample)

\* A full row of two cells gave an entry of two cells.
C19_WitnessFullRow ==
    /\ ret.status = "returned"
    /\ call.sample = <<PIPE, "a", PIPE, "a", PIPE>>
    /\ call.project.title = <<"T">>
    /\ count_pipes(ret.entry) = 3

----------------------------------------------------------------------------
(* profile.py: detect_entry_format on a section text of a few lines.       *)

\* re.match(r"^\s*\|.*\|", l)
is_pipe_row(l) ==
    LET e == lstrip(l)
    IN  e # <<>> /\ e[1] = PIPE /\ \E j \in 2..Len(e) : e[j] = PIPE

\* "img.shields.io" in l and "![" in l
is_badge_line(l) ==
    /\ contains(l, <<"i", "m", "g", ".", "s", "h", "i", "e", "l", "d", "s", ".", "i", "o">>)
    /\ contains(l, <<"!", "[">>)

\* re.search of `word`, one or more whitespace characters, then `rest`
search_spaced(l, word, rest) ==
    \E i \in DOMAIN l :
        /\ i + Len(word) <= Len(l)
        /\ SubSeq(l, i, i + Len(word) - 1) = word
        /\ l[i + Len(word)] \in Whitespace
        /\ LET j == skip_spaces(l, i + Len(word))
           IN  SubSeq(l, j, j + Len(rest) - 1) = rest /\ j + Len(rest) - 1 <= Len(l)

\* re.search(r"<a\s+href=", l, re.IGNORECASE)
is_html_link_line(l) == search_spaced(lower(l), <<"<", "a">>, <<"h", "r", "e", "f", "=">>)

\* re.search(r"<img\s+", l, re.IGNORECASE)
is_html_img_line(l) == search_spaced(lower(l), <<"<", "i", "m", "g">>, <<>>)

\* re.search(r"<details>|<summary>", l, re.IGNORECASE)
is_details_line(l) ==
    \/ contains(lower(l), <<"<", "d", "e", "t", "a", "i", "l", "s", ">">>)
    \/ contains(lower(l), <<"<", "s", "u", "m", "m", "a", "r", "y", ">">>)

\* The number of # characters the line begins with.
RECURSIVE hashes(_)
hashes(l) == IF l # <<>> /\ Head(l) = "#" THEN 1 + hashes(Tail(l)) ELSE 0

\* re.match(r"^#{3,}\s+\S", l)
is_heading_line(l) ==
    /\ hashes(l) >= 3
    /\ hashes(l) < Len(l) /\ l[hashes(l) + 1] \in Whitespace
    /\ skip_spaces(l, hashes(l) + 1) <= Len(l)

\* The number of digits the text begins with.
RECURSIVE digits_run(_)
digits_run(e) == IF e # <<>> /\ Head(e) \in Digits THEN 1 + digits_run(Tail(e)) ELSE 0

\* re.match(r"^\s*[-*]\s+", l) or re.match(r"^\s*\d+[.)]\s+", l)
is_bullet_line(l) ==
    LET e == lstrip(l)
        d == digits_run(e)
    IN  \/ Len(e) >= 2 /\ e[1] \in {"-", "*"} /\ e[2] \in Whitespace
        \/ d >= 1 /\ Len(e) >= d + 2 /\ e[d + 1] \in {".", ")"} /\ e[d + 2] \in Whitespace

\* re.match(r"^\s*\[.+?\]\(https?://\S+\)\s*$", l)
is_link_line(l) ==
    LET e == strip(l)
    IN  /\ e # <<>> /\ e[1] = "[" /\ e[Len(e)] = ")"
        /\ \E k \in 3..Len(e) :
              /\ e[k] = "]"
              /\ \E scheme \in {<<"(", "h", "t", "t", "p", ":", "/", "/">>, <<"(", "h", "t", "t", "p", "s", ":", "/", "/">>} :
                    /\ SubSeq(e, k + 1, k + Len(scheme)) = scheme
                    /\ k + Len(scheme) + 1 <= Len(e) - 1
                    /\ \A m \in (k + Len(scheme) + 1)..(Len(e) - 1) : e[m] \notin Whitespace

\* The table test counts the rows that are not separator rows only.
table_rows_without_separators(lines) ==
    SelectSeq(lines, LAMBDA l : is_pipe_row(l) /\ ~is_separator_row(l))

\* profile.py line 250
table_rows(lines) == SelectSeq(lines, is_pipe_row)

\* profile.py lines 245-298
detect_entry_format(section_text) ==
    LET lines == plain_splitlines(strip(section_text))
        badge_lines == SelectSeq(lines, is_badge_line)
        html_link_lines == SelectSeq(lines, is_html_link_line)
        html_img_lines == SelectSeq(lines, is_html_img_line)
        details_lines == SelectSeq(lines, is_details_line)
        heading_lines == SelectSeq(lines, is_heading_line)
        bullet_lines == SelectSeq(lines, is_bullet_line)
        link_lines == SelectSeq(lines, is_link_line)
    IN  IF lines = <<>> THEN "plain"
        ELSE IF Len(table_rows(lines)) >= 2 THEN "table"
        ELSE IF Len(badge_lines) >= 2 THEN "badge_grid"
        ELSE IF \/ Len(html_link_lines) >= 2
                \/ html_link_lines # <<>> /\ html_img_lines # <<>>
                \/ details_lines # <<>>
             THEN "html_cards"
        ELSE IF heading_lines # <<>> THEN "heading_blocks"
        ELSE IF bullet_lines # <<>> THEN "bullet_list"
        ELSE IF badge_lines # <<>> THEN "badge_grid"
        ELSE IF link_lines # <<>> THEN "bullet_list"
        ELSE IF html_link_lines # <<>> THEN "html_cards"
        ELSE "plain"

\* The lines a section text is made of.
SectionLines ==
    {<<"|", "a", "|", "a", "|">>,
     <<"|", "-", "|", "-", "|">>,
     <<"!", "[", "a", "]", "(", "i", "m", "g", ".", "s", "h", "i", "e", "l", "d", "s", ".", "i", "o", ")">>,
     <<"<", "A", " ", "h", "r", "e", "f", "=", "u", ">">>,
     <<"<", "i", "m", "g", " ", "s", "r", "c", "=", "u", ">">>,
     <<"<", "d", "e", "t", "a", "i", "l", "s", ">">>,
     <<"#", "#", "#", " ", "a">>,
     <<"-", " ", "a">>,
     <<"1", ".", " ", "a">>,
     <<"[", "a", "]", "(", "h", "t", "t", "p", ":", "/", "/", "u", ")">>,
     <<"a">>}

RECURSIVE SectionsUpTo(_)
SectionsUpTo(n) ==
    IF n = 1 THEN SectionLines
    ELSE SectionsUpTo(n - 1) \cup
         {t \o <<NL>> \o l : t \in SectionsUpTo(n - 1), l \in SectionLines}

InitFormat ==
    /\ PathUnused
    /\ PatchIdle
    /\ PipeIdle
    /\ call \in [fn : {"detect_entry_format"}, section_text : SectionsUpTo(MaxSectionLines)]
    /\ ret = [status |-> "not_called", format |-> "none"]

DetectEntryFormat ==
    /\ call.fn = "detect_entry_format" /\ ret.status = "not_called"
    /\ ret' = [status |-> "returned", format |-> detect_entry_format(call.section_text)]
    /\ UNCHANGED <<call, pathVars, patchVars, pipeVars>>

NextFormat == DetectEntryFormat

SpecFormat == InitFormat /\ [][NextFormat]_vars

\* The lines of the section text as detect_entry_format sees them.
SectionLinesOf(text) == plain_splitlines(strip(text))

\* The number of lines of the section text that satisfy P.
CountLines(P(_)) ==
    Cardinality({i \in DOMAIN SectionLinesOf(call.section_text) :
                    P(SectionLinesOf(call.section_text)[i])})

\* C20 as stated: the first format whose condition holds, table counting the
\* rows that are not separator rows, html_cards the anchor and img lines,
\* bullet_list the bare-link lines too; plain only when none holds.
C20_FirstConditionWins ==
    ret.status = "returned" =>
        ret.format =
            IF CountLines(LAMBDA l : is_pipe_row(l) /\ ~is_separator_row(l)) >= 2 THEN "table"
            ELSE IF CountLines(is_badge_line) >= 2 THEN "badge_grid"
            ELSE IF \/ CountLines(LAMBDA l : is_html_link_line(l) \/ is_html_img_line(l)) >= 2
                    \/ CountLines(is_details_line) >= 1
                 THEN "html_cards"
            ELSE IF CountLines(is_heading_line) >= 1 THEN "heading_blocks"
            ELSE IF CountLines(LAMBDA l : is_bullet_line(l) \/ is_link_line(l)) >= 1
                 THEN "bullet_list"
            ELSE "plain"

\* C20, amended: the first format whose condition holds in the order table
\* (2 pipe rows, separator rows counted), badge_grid (2 badge lines),
\* html_cards (2 anchor lines, or an anchor line and an img line, or a
\* details or summary line), heading_blocks, bullet_list (dash, asterisk or
\* numbered lines), then the fallbacks badge_grid (a badge line), bullet_list
\* (a bare-link line), html_cards (an anchor line); plain when none holds.
C20_FirstConditionWinsWithFallbacks ==
    ret.status = "returned" =>
        ret.format =
            IF CountLines(is_pipe_row) >= 2 THEN "table"
            ELSE IF CountLines(is_badge_line) >= 2 THEN "badge_grid"
            ELSE IF \/ CountLines(is_html_link_line) >= 2
                    \/ CountLines(is_html_link_line) >= 1 /\ CountLines(is_html_img_line) >= 1
                    \/ CountLines(is_details_line) >= 1
                 THEN "html_cards"
            ELSE IF CountLines(is_heading_line) >= 1 THEN "heading_blocks"
            ELSE IF CountLines(is_bullet_line) >= 1 THEN "bullet_list"
            ELSE IF CountLines(is_badge_line) >= 1 THEN "badge_grid"
            ELSE IF CountLines(is_link_line) >= 1 THEN "bullet_list"
            ELSE IF CountLines(is_html_link_line) >= 1 THEN "html_cards"
            ELSE "plain"

\* A section of a table row and a separator row was classified as a table.
C20_Witness ==
    /\ ret.status = "returned" /\ ret.format = "table"
    /\ CountLines(is_pipe_row) = 2
    /\ CountLines(is_separator_row) = 1

\* A section of one badge line and one bare-link line was classified by the
\* badge fallback.
C20_WitnessFallback ==
    /\ ret.status = "returned" /\ ret.format = "badge_grid"
    /\ CountLines(is_badge_line) = 1
    /\ CountLines(is_link_line) = 1

\* A section with a heading line and a bullet line was classified by its
\* heading.
C20_WitnessHeading ==
    /\ ret.status = "returned" /\ ret.format = "heading_blocks"
    /\ CountLines(is_bullet_line) >= 1

----------------------------------------------------------------------------
(* profile.py: parse_profile_readme as far as the entry positions of a     *)
(* table section: _split_into_sections, then find_entry_positions on the   *)
(* section that detect_project_section chose.  The README holds no         *)
(* <!-- NAME:START --> marker.                                             *)

\* re.match(r"^##\s+", l) and not re.match(r"^###", l)
is_h2(l) == hashes(l) = 2 /\ Len(l) > 2 /\ l[3] \in Whitespace

\* re.match(r"^###\s+", l)
is_h3(l) == hashes(l) = 3 /\ Len(l) > 3 /\ l[4] \in Whitespace

\* profile.py lines 130-144: heading_re.match(line) and not exclude_re.match(line)
is_section_heading(l, lines) ==
    LET has_h2 == \E i \in DOMAIN lines : is_h2(lines[i])
        has_h3 == \E i \in DOMAIN lines : is_h3(lines[i])
        deepest == IF ~has_h2 /\ has_h3 THEN 3 ELSE 2
    IN  /\ hashes(l) \in 1..deepest
        /\ Len(l) > hashes(l) /\ l[hashes(l) + 1] \in Whitespace

\* profile.py lines 123-180: the sections as (heading, start, end, text), in
\* the order of the document
_split_into_sections(content) ==
    LET lines == plain_splitlines(content)
        starts == {i \in DOMAIN lines : is_section_heading(lines[i], lines)}
        opening == IF lines # <<>> /\ 1 \notin starts THEN {0} ELSE {}
        bounds == starts \cup opening
        next_of(b) == IF \E c \in starts : c > b
                      THEN Min({c \in starts : c > b}) ELSE Len(lines) + 1
        section_of(b) ==
            [heading |-> IF b = 0 THEN <<>> ELSE strip(lines[b]),
             start |-> IF b = 0 THEN 1 ELSE b,
             end |-> next_of(b) - 1,
             text |-> join_lines(SubSeq(lines, b + 1, next_of(b) - 1))]
        nth(k) == CHOOSE b \in bounds : Cardinality({c \in bounds : c < b}) = k - 1
    IN  [k \in 1..Cardinality(bounds) |-> section_of(nth(k))]

\* profile.py lines 408-417: the pipe rows that are no separator rows, without
\* the first of them
table_positions(lines, offset) ==
    LET rows == {i \in DOMAIN lines : is_pipe_row(lines[i]) /\ ~is_separator_row(lines[i])}
        entries == rows \ {Min(rows)}
        nth(k) == CHOOSE i \in entries : Cardinality({j \in entries : j < i}) = k - 1
    IN  IF rows = {} THEN <<>>
        ELSE [k \in 1..Cardinality(entries) |-> offset + nth(k) - 1]

\* profile.py lines 396-417 and 445, for the table format
find_entry_positions(section_text, section_start_line) ==
    LET lines == plain_splitlines(section_text)
    IN  IF lines = <<>> THEN <<>> ELSE table_positions(lines, section_start_line + 1)

\* The lines a README is made of.
DocLines ==
    {<<"#", "#", " ", "P">>,
     <<"|", "a", "|", "a", "|">>,
     <<"|", "-", "|", "-", "|">>,
     <<"|", " ", "|", "a", "|">>,
     <<"a">>}

RECURSIVE DocsUpTo(_)
DocsUpTo(n) ==
    IF n = 1 THEN DocLines
    ELSE DocsUpTo(n - 1) \cup {t \o <<NL>> \o l : t \in DocsUpTo(n - 1), l \in DocLines}

\* The section detect_project_section chose is a table section.
InitPositions ==
    /\ PathUnused
    /\ PatchIdle
    /\ PipeIdle
    /\ call \in {c \in [fn : {"parse_profile_readme"}, content : DocsUpTo(MaxDocLines),
                       section : 1..MaxDocLines] :
                    /\ c.section <= Len(_split_into_sections(c.content))
                    /\ detect_entry_format(_split_into_sections(c.content)[c.section].text)
                           = "table"}
    /\ ret = [status |-> "not_called", positions |-> <<>>]

\* profile.py lines 107-111
ParseProfileReadme ==
    /\ call.fn = "parse_profile_readme" /\ ret.status = "not_called"
    /\ LET section == _split_into_sections(call.content)[call.section]
       IN  ret' = [status |-> "returned",
                   positions |-> find_entry_positions(section.text, section.start)]
    /\ UNCHANGED <<call, pathVars, patchVars, pipeVars>>

NextPositions == ParseProfileReadme

SpecPositions == InitPositions /\ [][NextPositions]_vars

\* The lines of the README and the chosen section of it.
DocOf(c) == plain_splitlines(c.content)
ChosenSection(c) == _split_into_sections(c.content)[c.section]

\* The 1-based lines of the README that lie in the chosen section, its
\* heading line left out.
SectionBody(c) ==
    {i \in DOMAIN DocOf(c) :
        /\ i <= ChosenSection(c).end
        /\ IF ChosenSection(c).heading = <<>> THEN i >= 1 ELSE i > ChosenSection(c).start}

\* A separator row: a pipe row whose cells hold dashes, colons and spaces only.
IsSeparatorRow(l) ==
    is_pipe_row(l) /\ \A i \in DOMAIN l : l[i] \in Whitespace \cup {"-", ":", PIPE}

\* The data rows of the chosen section: its pipe rows but the separator rows
\* and the first of the others (the header row).
DataRows(c) ==
    LET rows == {i \in SectionBody(c) :
                    is_pipe_row(DocOf(c)[i]) /\ ~IsSeparatorRow(DocOf(c)[i])}
    IN  {i \in rows : i # Min(rows)}

\* The members of the sequence, and whether it is ascending.
Members(seq) == {seq[i] : i \in DOMAIN seq}
Ascending(seq) == \A i, j \in DOMAIN seq : i < j => seq[i] < seq[j]

\* C21: the positions of a table section are, in ascending order, exactly
\* the 1-based README line numbers of its data rows.
C21_DataRowLineNumbers ==
    ret.status = "returned" =>
        /\ Ascending(ret.positions)
        /\ Members(ret.positions) = DataRows(call)

\* A README that begins with its table, without a heading: header row,
\* separator row and two data rows gave two positions.
C21_Witness ==
    /\ ret.status = "returned"
    /\ DocOf(call) = <<<<"|", "a", "|", "a", "|">>, <<"|", "-", "|", "-", "|">>, <<"|", "a", "|", "a", "|">>, <<"|", "a", "|", "a", "|">>>>
    /\ Len(ret.positions) = 2

\* Under a heading, and with no row that begins with a blank cell, the
\* positions are the line numbers of the data rows.
C21_DataRowsUnderHeading ==
    (/\ ret.status = "returned"
     /\ ChosenSection(call).heading # <<>>
     /\ \A i \in SectionBody(call) : IsSeparatorRow(DocOf(call)[i]) <=> is_separator_row(DocOf(call)[i]))
        => /\ Ascending(ret.positions)
           /\ Members(ret.positions) = DataRows(call)

\* The table of the test: heading, header row, separator row, two data rows.
C21_WitnessUnderHeading ==
    /\ ret.status = "returned"
    /\ DocOf(call) = <<<<"#", "#", " ", "P">>, <<"|", "a", "|", "a", "|">>, <<"|", "-", "|", "-", "|">>, <<"|", "a", "|", "a", "|">>, <<"|", "a", "|", "a", "|">>>>
    /\ ret.positions = <<4, 5>>

----------------------------------------------------------------------------
(* profile.py: compute_insertion_line and build_profile_patch on a hint.   *)

\* The ascending sequence of the members of a set of numbers.
sorted(S) ==
    [k \in 1..Cardinality(S) |-> CHOOSE x \in S : Cardinality({y \in S : y < x}) = k - 1]

\* The middle position is taken one place early when their number is even.
compute_insertion_line_low_middle(hint, priority) ==
    IF hint.entry_positions = <<>> THEN hint.section_end_line + 1
    ELSE IF priority = "top" THEN hint.entry_positions[1]
    ELSE IF priority = "middle"
         THEN hint.entry_positions[(Len(hint.entry_positions) + 1) \div 2]
    ELSE hint.section_end_line + 1

\* profile.py lines 461-475 (positions[mid] is 0-based)
compute_insertion_line(hint, priority) ==
    IF hint.entry_positions = <<>> THEN hint.section_end_line + 1
    ELSE IF priority = "top" THEN hint.entry_positions[1]
    ELSE IF priority = "middle"
         THEN hint.entry_positions[(Len(hint.entry_positions) \div 2) + 1]
    ELSE hint.section_end_line + 1

\* profile.py lines 980-999: the patch for the README
build_profile_patch(entry, hint, priority) ==
    LET later == {i \in DOMAIN hint.entry_positions :
                     hint.entry_positions[i] > hint.section_start_line}
        insertion_line ==
            IF hint.format = "table" /\ priority = "top" /\ later # {}
            THEN hint.entry_positions[Min(later)]
            ELSE compute_insertion_line(hint, priority)
    IN  [path |-> "README.md", action |-> "insert_before_line",
         target_line |-> insertion_line, content |-> entry]

\* The hints of parse_profile_readme: the positions ascend and lie in the
\* section, after its first line.
ReadmeHints ==
    {h \in [format : {"table", "bullet_list"},
            section_start_line : 1..2,
            section_end_line : 1..MaxLineNo,
            entry_positions : {sorted(S) : S \in SUBSET (2..MaxLineNo)}] :
        /\ h.section_start_line <= h.section_end_line
        /\ \A i \in DOMAIN h.entry_positions :
              /\ h.entry_positions[i] > h.section_start_line
              /\ h.entry_positions[i] <= h.section_end_line + 1}

Priorities == {"top", "middle", "bottom"}

InitInsertion ==
    /\ PathUnused
    /\ PatchIdle
    /\ PipeIdle
    /\ call \in [fn : {"build_profile_patch"}, hint : ReadmeHints, priority : Priorities]
    /\ ret = [status |-> "not_called", line |-> 0, target_line |-> 0]

BuildProfilePatch ==
    /\ call.fn = "build_profile_patch" /\ ret.status = "not_called"
    /\ ret' = [status |-> "returned",
               line |-> compute_insertion_line(call.hint, call.priority),
               target_line |-> build_profile_patch(<<>>, call.hint, call.priority).target_line]
    /\ UNCHANGED <<call, pathVars, patchVars, pipeVars>>

NextInsertion == BuildProfilePatch

SpecInsertion == InitInsertion /\ [][NextInsertion]_vars

\* C22: compute_insertion_line returns the first position for top, the
\* position at 0-based index floor(n/2) for middle, and section_end_line + 1
\* for bottom and when there is no position.
C22_InsertionLine ==
    ret.status = "returned" =>
        LET positions == call.hint.entry_positions
            n == Len(positions)
        IN  /\ (n = 0 \/ call.priority = "bottom")
                => ret.line = call.hint.section_end_line + 1
            /\ (n > 0 /\ call.priority = "top") => ret.line = positions[1]
            /\ (n > 0 /\ call.priority = "middle")
                => \E k \in 0..(n - 1) : /\ 2 * k <= n /\ n < 2 * k + 2
                                         /\ ret.line = positions[k + 1]

\* The middle of four positions is the third.
C22_Witness ==
    /\ ret.status = "returned" /\ call.priority = "middle"
    /\ call.hint.entry_positions = <<2, 3, 5, 6>>
    /\ ret.line = 5

\* No position: the line after the section.
C22_WitnessEmpty ==
    /\ ret.status = "returned" /\ call.priority = "top"
    /\ call.hint.entry_positions = <<>>
    /\ ret.line = call.hint.section_end_line + 1

----------------------------------------------------------------------------
(* cli.py: _run_pipeline over several projects whose patches are all       *)
(* computed from the listing file as it was before the run (the detection  *)
(* is made once, before the loop over the projects), then applied in       *)
(* order.  The listing file holds one entry per line; the entry generated  *)
(* for project i is two lines of the digit i.                              *)

ListingFile == Append(PatchRoot, <<"l">>)

\* The text of a file of the given lines.
text_of(lines) == join([i \in DOMAIN lines |-> Append(lines[i], NL)])

\* The lines of the entry generated for project i.
entry_of(i) == LET d == CASE i = 1 -> "1" [] i = 2 -> "2" [] OTHER -> "3"
               IN  << <<d>>, <<d>> >>

\* json.dumps of the list: the brackets and the lines of the entries
dumps(entries) == text_of(<< <<"[">> >> \o entries \o << <<"]">> >>)

\* list.insert(mid, ...) / list.append of llm.py lines 898-904
placed(entries, new_entry, priority) ==
    LET at == IF priority = "top" THEN 0
              ELSE IF priority = "middle" THEN Len(entries) \div 2
              ELSE Len(entries)
    IN  SubSeq(entries, 1, at) \o new_entry \o SubSeq(entries, at + 1, Len(entries))

\* llm.py lines 832-931: the whole file, with the entry put into the list
\* that the given content holds
_generate_focused_json_entry(existing, i, priority) ==
    PatchAction(<<"l">>, "replace", NoneStr, NoneInt,
                dumps(placed(existing, entry_of(i), priority)))

\* llm.py lines 672-688 and 719-725: the line of the first entry, of the
\* middle entry or of the closing bracket of the given content
_generate_focused_code_entry(existing, i, priority) ==
    LET entry_lines == [k \in DOMAIN existing |-> k + 1]
        closing_line_num == Len(existing) + 2
        target_line ==
            IF priority = "top" /\ entry_lines # <<>> THEN entry_lines[1]
            ELSE IF priority = "middle" /\ Len(entry_lines) >= 2
                 THEN entry_lines[(Len(entry_lines) \div 2) + 1]
            ELSE closing_line_num
    IN  PatchAction(<<"l">>, "insert_before_line", <<"]">>, target_line,
                    join_lines(entry_of(i)))

\* llm.py lines 582-624
generate_focused_entry(kind, existing, i, priority) ==
    IF kind = "json" THEN _generate_focused_json_entry(existing, i, priority)
    ELSE _generate_focused_code_entry(existing, i, priority)

\* The entries the listing file holds before the run.
ExistingEntries == {<<>>, << <<"a">> >>, << <<"a">>, <<"b">> >>}

InitMulti ==
    /\ PathUnused
    /\ PatchIdle
    /\ PipeIdle
    /\ call \in [fn : {"_run_pipeline"}, kind : {"json", "code"},
                 existing : ExistingEntries,
                 priorities : [1..MaxProjects -> Priorities],
                 approved : SUBSET (1..MaxProjects)]
    /\ ret = [status |-> "collecting", patches |-> <<>>,
              tree |-> (ListingFile :> dumps(call.existing)), error |-> "none"]

\* cli.py lines 478-507: the patch of the next project, from the content read
\* before the loop
CollectForProject ==
    /\ call.fn = "_run_pipeline" /\ ret.status = "collecting"
    /\ Len(ret.patches) < MaxProjects
    /\ LET i == Len(ret.patches) + 1
       IN  ret' = [ret EXCEPT !.patches =
                       Append(@, generate_focused_entry(call.kind, call.existing, i,
                                                        call.priorities[i]))]
    /\ UNCHANGED <<call, pathVars, patchVars, pipeVars>>

\* cli.py lines 509-511 and 607-611: the approved patches, applied in order
ApplyApproved ==
    /\ call.fn = "_run_pipeline" /\ ret.status = "collecting"
    /\ Len(ret.patches) = MaxProjects
    /\ LET kept == sorted(call.approved)
           selected == [k \in DOMAIN kept |-> ret.patches[kept[k]]]
           done == apply_patches(ret.tree, PatchRoot, selected)
       IN  ret' = [ret EXCEPT !.status = "applied", !.tree = done.tree,
                              !.error = done.error]
    /\ UNCHANGED <<call, pathVars, patchVars, pipeVars>>

NextMulti == CollectForProject \/ ApplyApproved

SpecMulti == InitMulti /\ [][NextMulti]_vars

\* The lines of the listing file hold the entry of project i, whole.
HoldsEntry(i) ==
    LET lines == plain_splitlines(ret.tree[ListingFile])
    IN  \E k \in DOMAIN lines :
           k + 1 <= Len(lines) /\ SubSeq(lines, k, k + 1) = entry_of(i)

\* C23: after the approved patches were applied in order, the listing file
\* holds the entry of every project whose patch was approved.
C23_EveryApprovedEntryKept ==
    (ret.status = "applied" /\ ret.error = "none")
        => \A i \in call.approved : HoldsEntry(i)

\* Two projects were approved for a JSON listing and their patches applied.
C23_Witness ==
    /\ ret.status = "applied" /\ ret.error = "none"
    /\ call.kind = "json" /\ {1, 2} \subseteq call.approved
    /\ HoldsEntry(2)

\* Two projects were approved for a code listing, the first at the top and
\* the second in the middle.
C23_WitnessCode ==
    /\ ret.status = "applied" /\ ret.error = "none"
    /\ call.kind = "code" /\ {1, 2} \subseteq call.approved
    /\ call.priorities[1] = "top" /\ call.priorities[2] = "middle"
    /\ call.existing = << <<"a">>, <<"b">> >>

\* A single approved project's entry is in the listing file.
C23_SingleApprovedEntryKept ==
    (ret.status = "applied" /\ ret.error = "none" /\ Cardinality(call.approved) = 1)
        => \A i \in call.approved : HoldsEntry(i)

\* One of the projects was approved and its entry written.
C23_WitnessSingle ==
    /\ ret.status = "applied" /\ call.approved = {2} /\ HoldsEntry(2)

----------------------------------------------------------------------------
(* The lines of the target after an insert that succeeded (SpecPatch).     *)

\* The lines of the target before and after the call, without their line
\* ends, and the lines of the inserted content.
LinesBefore == plain_splitlines(fs0[TheTarget])
LinesAfter == plain_splitlines(fs[TheTarget])
InsertedLines == plain_splitlines(content_to_insert(ThePatch))

\* The lines after the call are the lines before it with the inserted lines
\* put between two of them, or before the first, or after the last.
LinesKeptAround ==
    \E k \in 0..Len(LinesBefore) :
        LinesAfter = SubSeq(LinesBefore, 1, k) \o InsertedLines
                         \o SubSeq(LinesBefore, k + 1, Len(LinesBefore))

InsertSucceeded == InsertOnExisting /\ applied.error = "none"

\* The content was put after a last line that has no line end.
AfterOpenLastLine ==
    LET text == fs0[TheTarget]
    IN  /\ text # <<>> /\ text[Len(text)] # NL
        /\ fs[TheTarget] = text \o content_to_insert(ThePatch)

\* C24: after a successful insert the file holds the original lines, each
\* unchanged and in their order, with the content added as whole lines at
\* the insertion point, also after a last line without a line end.
C24_OriginalLinesKept ==
    InsertSucceeded => LinesKeptAround

\* The content b was inserted after the last line of a file that does not
\* end with a line end.
C24_Witness ==
    /\ InsertSucceeded /\ AfterOpenLastLine
    /\ ThePatch.action = "insert_after_line"
    /\ ThePatch.content = <<"b">>

\* Everywhere but after a last line without a line end, the original lines
\* are kept and the content is added as whole lines.
C24_OriginalLinesKeptElsewhere ==
    (InsertSucceeded /\ ~AfterOpenLastLine) => LinesKeptAround

\* The content was inserted before the last line of a file that does not
\* end with a line end.
C24_WitnessElsewhere ==
    /\ InsertSucceeded /\ ~AfterOpenLastLine
    /\ fs0[TheTarget] = <<"a", NL, "b">>
    /\ ThePatch.action = "insert_before_line" /\ ThePatch.target_line = 2

----------------------------------------------------------------------------
(* llm.py: the target line of _generate_focused_code_entry, found by       *)
(* _find_entry_line_numbers and _find_array_closing in the text of the     *)
(* listing file.  The file declares the array p, plainly or with a type,   *)
(* on one line or with one entry after the other.                          *)

DECLARATION == <<"c", "o", "n", "s", "t", " ", "p", " ", "=", " ", "[">>
TYPED_DECLARATION == <<"c", "o", "n", "s", "t", " ", "p", ":", " ", "P", "[", "]", " ", "=", " ", "[">>
CLOSING == <<"]", ";">>

\* The lines of an entry: on one line, on three lines, and on three lines of
\* which the second holds a nested object.
entry_lines_of(kind) ==
    CASE kind = "one_line" -> << <<"{", "a", "}", ",">> >>
      [] kind = "three_lines" -> << <<"{">>, <<"a", ",">>, <<"}", ",">> >>
      [] OTHER -> << <<"{">>, <<"x", ":", " ", "{", "}", ",">>, <<"}", ",">> >>

EntryKinds == {"one_line", "three_lines", "nested"}

RECURSIVE flatten(_)
flatten(seqs) == IF seqs = <<>> THEN <<>> ELSE Head(seqs) \o flatten(Tail(seqs))

\* The lines of the listing file.
listing_lines(file) ==
    LET decl == IF file.typed THEN TYPED_DECLARATION ELSE DECLARATION
        before == IF file.leading THEN << <<"x">> >> ELSE <<>>
    IN  IF file.single_line
        THEN before \o << decl \o <<"{", "a", "}", ",", " ", "{", "b", "}">> \o CLOSING >>
        ELSE before \o <<decl>>
                 \o flatten([k \in DOMAIN file.entries |-> entry_lines_of(file.entries[k])])
                 \o <<CLOSING>>

listing_text(file) == text_of(listing_lines(file))

\* pattern.search(content).start(): where the declaration of p begins
match_start(content) ==
    Min({i \in 1..(Len(content) - 6) : SubSeq(content, i, i + 6) = <<"c", "o", "n", "s", "t", " ", "p">>})

\* content.index("[", match.start())
bracket_start(content) ==
    Min({i \in DOMAIN content : i >= match_start(content) /\ content[i] = "["})

\* content[:i].count("\n") + 1 for the 1-based place i
line_num(content, i) == Cardinality({j \in 1..(i - 1) : content[j] = NL}) + 1

\* The loop of llm.py lines 1266-1280 and 1297-1313 from the place `from`:
\* the depth after every character, the place of the first "]" that brings
\* it to 0 (0 when none does) and the places of the "{" seen at depth 1
\* up to there.
bracket_scan(content, from) ==
    LET places == from..Len(content)
        depth == [i \in places |->
                     Cardinality({j \in from..i : content[j] = "["})
                         - Cardinality({j \in from..i : content[j] = "]"})]
        closings == {i \in places : depth[i] = 0}
        closing == IF closings = {} THEN 0 ELSE Min(closings)
        last == IF closing = 0 THEN Len(content) ELSE closing
    IN  [closing |-> closing,
         braces |-> {i \in from..last : content[i] = "{" /\ depth[i] = 1}]

\* llm.py lines 1285-1315: the line of the "]" that brings depth to 0 (0 for
\* None)
_find_array_closing(content) ==
    LET scan == bracket_scan(content, bracket_start(content))
    IN  IF scan.closing = 0 THEN 0 ELSE line_num(content, scan.closing)

\* llm.py lines 1254-1282: the line of every "{" at depth 1 before that "]"
_find_entry_line_numbers(content) ==
    LET braces == sorted(bracket_scan(content, bracket_start(content)).braces)
    IN  [k \in DOMAIN braces |-> line_num(content, braces[k])]

\* llm.py lines 672-688: the target line (0 when no patch is made)
code_entry_target_line(content, priority) ==
    LET closing_line_num == _find_array_closing(content)
        entry_lines == _find_entry_line_numbers(content)
    IN  IF closing_line_num = 0 THEN 0
        ELSE IF priority = "top" /\ entry_lines # <<>> THEN entry_lines[1]
        ELSE IF priority = "middle" /\ Len(entry_lines) >= 2
             THEN entry_lines[(Len(entry_lines) \div 2) + 1]
        ELSE closing_line_num

RECURSIVE EntrySeqsUpTo(_)
EntrySeqsUpTo(n) ==
    IF n = 0 THEN {<<>>}
    ELSE EntrySeqsUpTo(n - 1) \cup
         {Append(e, k) : e \in {f \in EntrySeqsUpTo(n - 1) : Len(f) = n - 1}, k \in EntryKinds}

ListingFiles ==
    [leading : BOOLEAN, typed : BOOLEAN, single_line : {FALSE},
     entries : EntrySeqsUpTo(MaxEntries)]
    \cup [leading : BOOLEAN, typed : BOOLEAN, single_line : {TRUE}, entries : {<<>>}]

InitArray ==
    /\ PathUnused
    /\ PatchIdle
    /\ PipeIdle
    /\ call \in [fn : {"_generate_focused_code_entry"}, file : ListingFiles,
                 priority : Priorities]
    /\ ret = [status |-> "not_called", target_line |-> 0]

GenerateFocusedCodeEntry ==
    /\ call.fn = "_generate_focused_code_entry" /\ ret.status = "not_called"
    /\ ret' = [status |-> "returned",
               target_line |-> code_entry_target_line(listing_text(call.file), call.priority)]
    /\ UNCHANGED <<call, pathVars, patchVars, pipeVars>>

NextArray == GenerateFocusedCodeEntry

SpecArray == InitArray /\ [][NextArray]_vars

\* The line that holds the opening bracket of the array, the line that holds
\* its closing bracket, and the lines on which its entries begin.
OpeningLine(file) == IF file.leading THEN 2 ELSE 1

EntryLength(kind) == Len(entry_lines_of(kind))

RECURSIVE LinesOfEntries(_)
LinesOfEntries(entries) ==
    IF entries = <<>> THEN 0 ELSE EntryLength(Head(entries)) + LinesOfEntries(Tail(entries))

ClosingLine(file) ==
    IF file.single_line THEN OpeningLine(file)
    ELSE OpeningLine(file) + LinesOfEntries(file.entries) + 1

EntryStarts(file) ==
    IF file.single_line THEN {}
    ELSE {OpeningLine(file) + LinesOfEntries(SubSeq(file.entries, 1, k - 1)) + 1 :
             k \in DOMAIN file.entries}

OnBoundary(file, line) ==
    /\ OpeningLine(file) < line /\ line <= ClosingLine(file)
    /\ line \in EntryStarts(file) \cup {ClosingLine(file)}

\* C25: the target line of the patch lies inside the array, after the line
\* of its opening bracket and no later than the line of its closing bracket,
\* and on a boundary between entries.
C25_TargetOnBoundary ==
    (ret.status = "returned" /\ ret.target_line # 0)
        => OnBoundary(call.file, ret.target_line)

\* A patch was made for a typed declaration with entries.
C25_Witness ==
    /\ ret.status = "returned" /\ ret.target_line # 0
    /\ call.file.typed /\ ~call.file.single_line
    /\ Len(call.file.entries) = 2

\* A patch was made for the middle of an array whose entries hold nested
\* objects.
C25_WitnessNested ==
    /\ ret.status = "returned" /\ ret.target_line # 0
    /\ call.priority = "middle" /\ ~call.file.typed
    /\ call.file.entries = <<"nested", "nested">>

\* For a declaration without a type, with one entry after the other and no
\* nested object, the target line is on a boundary inside the array.
C25_PlainArraysOnBoundary ==
    (/\ ret.status = "returned"
     /\ ~call.file.typed /\ ~call.file.single_line
     /\ \A k \in DOMAIN call.file.entries : call.file.entries[k] # "nested")
        => OnBoundary(call.file, ret.target_line)

\* Middle placement among three entries of one and three lines.
C25_WitnessPlain ==
    /\ ret.status = "returned" /\ call.priority = "middle"
    /\ ~call.file.typed /\ call.file.leading
    /\ call.file.entries = <<"three_lines", "one_line", "one_line">>
    /\ ret.target_line = 6

----------------------------------------------------------------------------
(* llm.py: validate_generation on one insert_after_line patch for the file *)
(* f, whose content it was given, and apply_patches on the patch it keeps. *)

Dropped == [action |-> "dropped"]

\* The markers of the generated patch and of the detected HTML listing.
GeneratedMarkers == {NoneStr, <<>>, <<"a">>, <<"b">>, <<"a", "b">>, <<"a", NL, "b">>}

\* llm.py lines 535-572: None, or the stripped text of a line of the content
\* (the line of the last "}" of the array)
LastEntryClosings(content) ==
    {NoneStr} \cup
    ({strip(plain_splitlines(content)[i]) : i \in DOMAIN plain_splitlines(content)}
        \ {<<>>})

\* llm.py lines 499-532, with the marker _find_last_entry_closing found
_auto_fix_marker(patch, content, listing, closing) ==
    IF listing.kind = "none" THEN Dropped
    ELSE IF content = <<>> THEN Dropped
    ELSE LET marker ==
                 IF listing.kind = "html"
                 THEN IF /\ listing.last_entry_marker # NoneStr
                         /\ listing.last_entry_marker # <<>>
                         /\ contains(content, listing.last_entry_marker)
                      THEN listing.last_entry_marker ELSE NoneStr
                 ELSE closing
         IN  IF marker # NoneStr /\ marker # <<>>
             THEN PatchAction(patch.path, patch.action, marker, NoneInt, patch.content)
             ELSE Dropped

\* llm.py lines 452-484, for an insert_after_line patch
validate_patch(patch, content, in_tree, listing, closing) ==
    IF ~in_tree THEN Dropped
    ELSE LET first == IF ~HasMarker(patch)
                      THEN _auto_fix_marker(patch, content, listing, closing)
                      ELSE patch
         IN  IF first = Dropped THEN Dropped
             ELSE IF /\ content # <<>> /\ HasMarker(first)
                     /\ ~contains(content, first.insert_after_marker)
                  THEN _auto_fix_marker(first, content, listing, closing)
                  ELSE first

Listings ==
    {[kind |-> "none", last_entry_marker |-> NoneStr],
     [kind |-> "code", last_entry_marker |-> NoneStr]}
    \cup [kind : {"html"}, last_entry_marker : {<<>>, <<"a">>, <<"a", NL, "b">>}]

InitValidate ==
    /\ PathUnused
    /\ PatchIdle
    /\ PipeIdle
    /\ call \in [fn : {"validate_generation"},
                 content : StringsUpTo(TextChars, MaxLen) \ {<<>>},
                 marker : GeneratedMarkers,
                 in_tree : BOOLEAN,
                 listing : Listings]
    /\ ret = [status |-> "not_called", kept |-> Dropped, error |-> "no_call"]

ValidateGeneration ==
    /\ call.fn = "validate_generation" /\ ret.status = "not_called"
    /\ \E closing \in LastEntryClosings(call.content) :
          ret' = [ret EXCEPT
                     !.status = "validated",
                     !.kept = validate_patch(
                                  PatchAction(<<"f">>, "insert_after_line", call.marker,
                                              NoneInt, <<"b">>),
                                  call.content, call.in_tree, call.listing, closing)]
    /\ UNCHANGED <<call, pathVars, patchVars, pipeVars>>

\* apply_patches on the kept patch, the file holding the content given
ApplyKept ==
    /\ call.fn = "validate_generation" /\ ret.status = "validated"
    /\ ret.kept # Dropped
    /\ ret' = [ret EXCEPT
                  !.status = "applied",
                  !.error = apply_patches((FileF :> call.content), PatchRoot,
                                          <<ret.kept>>).error]
    /\ UNCHANGED <<call, pathVars, patchVars, pipeVars>>

NextValidate == ValidateGeneration \/ ApplyKept

SpecValidate == InitValidate /\ [][NextValidate]_vars

\* C26: a kept insert_after_line patch has a non-empty marker that a single
\* line of the file contains, and applies without a marker-not-found error.
C26_KeptMarkerInOneLine ==
    /\ (ret.status # "not_called" /\ ret.kept # Dropped)
          => /\ HasMarker(ret.kept)
             /\ LinesWith(call.content, ret.kept.insert_after_marker) # {}
    /\ ret.status = "applied" => ret.error # "marker_not_found"

\* A patch whose marker spans two lines of the content was kept and applied.
C26_Witness ==
    /\ ret.status = "applied"
    /\ call.content = <<"a", NL, "b">>
    /\ ret.kept.insert_after_marker = <<"a", NL, "b">>

\* A kept patch whose marker holds no newline has a non-empty marker that a
\* line of the file contains, and applies.
C26_SingleLineMarkerApplies ==
    (/\ ret.status # "not_called" /\ ret.kept # Dropped
     /\ ~contains(ret.kept.insert_after_marker, <<NL>>))
        => /\ HasMarker(ret.kept)
           /\ LinesWith(call.content, ret.kept.insert_after_marker) # {}
           /\ ret.status = "applied" => ret.error = "none"

\* A patch without a marker was given the marker of the listing and applied.
C26_WitnessAutoFix ==
    /\ ret.status = "applied" /\ ret.error = "none"
    /\ call.marker = NoneStr /\ call.listing.kind = "code"

----------------------------------------------------------------------------
(* profile.py: run_profile_step on a README that exists, is not blank and  *)
(* names neither the title nor the URL of the project (detect_duplicate    *)
(* returns False), and apply_patches on the patches it returns, in the     *)
(* order it returns them.                                                  *)

\* Most lines of the README of SpecSkills.
MaxReadmeLines == 4

\* profile.py lines 123-128
PROJECT_KEYWORDS ==
    {<<"p", "r", "o", "j", "e", "c", "t">>,
     <<"f", "e", "a", "t", "u", "r", "e", "d">>,
     <<"w", "o", "r", "k">>,
     <<"b", "u", "i", "l", "t">>,
     <<"p", "o", "r", "t", "f", "o", "l", "i", "o">>,
     <<"s", "h", "o", "w", "c", "a", "s", "e">>,
     <<"h", "i", "g", "h", "l", "i", "g", "h", "t", "s">>,
     <<"c", "r", "e", "a", "t", "i", "o", "n", "s">>,
     <<"a", "p", "p", "s">>,
     <<"t", "o", "o", "l", "s">>,
     <<"r", "e", "p", "o", "s">>,
     <<"r", "e", "p", "o", "s", "i", "t", "o", "r", "i", "e", "s">>,
     <<"o", "p", "e", "n", " ", "s", "o", "u", "r", "c", "e">>,
     <<"s", "i", "d", "e", " ", "p", "r", "o", "j", "e", "c", "t">>,
     <<"w", "h", "a", "t", " ", "i">>,
     <<"t", "h", "i", "n", "g", "s", " ", "i">>}

\* profile.py line 1018
SKILL_KEYWORDS ==
    {<<"s", "k", "i", "l", "l">>,
     <<"t", "e", "c", "h">>,
     <<"s", "t", "a", "c", "k">>,
     <<"t", "o", "o", "l">>,
     <<"l", "a", "n", "g", "u", "a", "g", "e">>}

\* profile.py lines 229-244.  The lines of the READMEs modelled here hold no
\* "|", "*", "<", "[", digit, URL or one of the words repo, demo, source and
\* code, so that no content signal matches and no URL is counted.
_score_project_likeness(heading, text) ==
    IF \E kw \in PROJECT_KEYWORDS : contains(lower(heading), kw) THEN 3 ELSE 0

\* profile.py lines 211-226: the index of the first section of the highest
\* score, 0 for None
detect_project_section(sections) ==
    LET score(k) == _score_project_likeness(sections[k].heading, sections[k].text)
        best == {k \in DOMAIN sections :
                    /\ score(k) >= 2
                    /\ \A j \in DOMAIN sections :
                          /\ score(j) <= score(k)
                          /\ j < k => score(j) < score(k)}
    IN  IF best = {} THEN 0 ELSE Min(best)

\* profile.py lines 419-426: the lines of a bullet list that begin an entry
bullet_positions(lines, offset) ==
    LET entries == {i \in DOMAIN lines : is_bullet_line(lines[i]) \/ is_link_line(lines[i])}
        nth(k) == CHOOSE i \in entries : Cardinality({j \in entries : j < i}) = k - 1
    IN  [k \in 1..Cardinality(entries) |-> offset + nth(k) - 1]

\* profile.py lines 396-445 for the formats table, bullet_list and plain
find_positions(section_text, fmt, section_start_line) ==
    LET lines == plain_splitlines(section_text)
    IN  IF lines = <<>> THEN <<>>
        ELSE IF fmt = "table" THEN table_positions(lines, section_start_line + 1)
        ELSE IF fmt = "bullet_list" THEN bullet_positions(lines, section_start_line + 1)
        ELSE <<>>

NoReadmeHint == [format |-> "None"]

\* profile.py lines 107-120: the hint for the section that was chosen
hint_of(section) ==
    LET fmt == detect_entry_format(section.text)
    IN  [format |-> fmt,
         section_start_line |-> section.start,
         section_end_line |-> section.end,
         entry_positions |-> find_positions(section.text, fmt, section.start)]

\* profile.py lines 96-120.  The sections are computed once: a value is
\* bound to a name by drawing it from the set that holds it alone.
parse_profile_readme(content) ==
    IF strip(content) = <<>> THEN NoReadmeHint
    ELSE CHOOSE hint \in
             {IF detect_project_section(sections) = 0 THEN NoReadmeHint
              ELSE hint_of(sections[detect_project_section(sections)]) :
                  sections \in {_split_into_sections(content)}} : TRUE

\* re.match(r"^#{1,3}\s+(.*)", l)
is_skills_heading_match(l) ==
    hashes(l) \in 1..3 /\ Len(l) > hashes(l) /\ l[hashes(l) + 1] \in Whitespace

\* heading_match.group(1).lower()
heading_text(l) == lower(SubSeq(l, skip_spaces(l, hashes(l) + 1), Len(l)))

NoSection == [found |-> FALSE]

\* profile.py lines 1006-1030: skills_start and skills_end are 0-based
\* indices of lines, heading is the 1-based line of the heading
skills_section_of(lines) ==
    LET headings == {i \in DOMAIN lines : is_skills_heading_match(lines[i])}
        skills == {i \in headings :
                      \E kw \in SKILL_KEYWORDS : contains(heading_text(lines[i]), kw)}
    IN  IF skills = {} THEN NoSection
        ELSE LET heading == Min(skills)
                 later == {i \in headings : i > heading}
             IN  IF later # {}
                 THEN [found |-> TRUE, skills_start |-> heading,
                       skills_end |-> Min(later) - 2,
                       skills_text |-> join_lines(SubSeq(lines, heading + 1, Min(later) - 1))]
                 ELSE IF heading < Len(lines)
                 THEN [found |-> TRUE, skills_start |-> heading,
                       skills_end |-> Len(lines) - 1,
                       skills_text |-> join_lines(SubSeq(lines, heading + 1, Len(lines)))]
                 ELSE NoSection

detect_skills_section(content) ==
    CHOOSE result \in {skills_section_of(lines) : lines \in {plain_splitlines(content)}} : TRUE

\* profile.py lines 1033-1042
find_missing_tech_badges(skills_text, tech_stack) ==
    SelectSeq(tech_stack, LAMBDA tech : ~contains(lower(skills_text), lower(tech)))

\* profile.py lines 1090-1108: a badge is ![tech](url); the URL, which holds
\* no newline, is left out
generate_skill_badges(missing) ==
    [i \in DOMAIN missing |-> <<"!", "[">> \o missing[i] \o <<"]">>]

ReadmePath == <<"f">>
NoPatch == [action |-> "None"]

\* profile.py lines 1111-1133
skills_patch_of(result, tech_stack) ==
    IF ~result.found THEN NoPatch
    ELSE LET missing == find_missing_tech_badges(result.skills_text, tech_stack)
         IN  IF missing = <<>> THEN NoPatch
             ELSE PatchAction(ReadmePath, "insert_before_line", NoneStr,
                              result.skills_end + 1,
                              join_lines(generate_skill_badges(missing)))

build_skills_patch(content, tech_stack) ==
    CHOOSE patch \in {skills_patch_of(result, tech_stack) :
                         result \in {detect_skills_section(content)}} : TRUE

PROJECTS_SECTION ==
    <<NL, "#", "#", " ", "P", "r", "o", "j", "e", "c", "t", "s", NL, NL>>

\* profile.py lines 1160-1172: the content and the hint after the first parse
with_project_section(readme, first) ==
    IF first = NoReadmeHint
    THEN [content |-> readme \o PROJECTS_SECTION,
          hint |-> parse_profile_readme(readme \o PROJECTS_SECTION)]
    ELSE [content |-> readme, hint |-> first]

\* profile.py lines 1174-1190
patches_for(content, hint, entry, tech_stack, priority, update_skills) ==
    IF hint = NoReadmeHint \/ entry = <<>> THEN <<>>
    ELSE LET made == build_profile_patch(entry, hint, priority)
             profile_patch == PatchAction(ReadmePath, made.action, NoneStr,
                                          made.target_line, made.content)
         IN  IF update_skills
             THEN CHOOSE returned \in
                      {IF skills_patch # NoPatch THEN <<profile_patch, skills_patch>>
                       ELSE <<profile_patch>> :
                           skills_patch \in {build_skills_patch(content, tech_stack)}} : TRUE
             ELSE <<profile_patch>>

\* profile.py lines 1136-1190: the README it leaves and the patches
run_profile_step(readme, entry, tech_stack, priority, update_skills) ==
    CHOOSE r \in
        {[readme |-> parsed.content,
          patches |-> patches_for(parsed.content, parsed.hint, entry, tech_stack,
                                  priority, update_skills)] :
            parsed \in {with_project_section(readme, first) :
                           first \in {parse_profile_readme(readme)}}} : TRUE

\* The lines a README is made of, the entry that was generated for the
\* project and the tech stack of the project.
ReadmeLines ==
    {<<"#", "#", " ", "w", "o", "r", "k">>,
     <<"#", "#", " ", "t", "e", "c", "h">>,
     <<"-", " ", "a">>,
     <<"b">>}
NewEntry == <<"-", " ", "n">>
TechStack == << <<"c">> >>

RECURSIVE ReadmesUpTo(_)
ReadmesUpTo(n) ==
    IF n = 1 THEN ReadmeLines
    ELSE ReadmesUpTo(n - 1) \cup {t \o <<NL>> \o l : t \in ReadmesUpTo(n - 1), l \in ReadmeLines}

InitSkills ==
    /\ PathUnused
    /\ PatchIdle
    /\ PipeIdle
    /\ call \in [fn : {"run_profile_step"},
                 readme : ReadmesUpTo(MaxReadmeLines)
                              \cup {t \o <<NL>> : t \in ReadmesUpTo(MaxReadmeLines)},
                 entry : {<<>>, NewEntry},
                 priority : Priorities,
                 update_skills : BOOLEAN]
    /\ ret = [status |-> "not_called", readme |-> <<>>, patches |-> <<>>,
              final |-> <<>>, error |-> "no_call"]

RunProfileStep ==
    /\ call.fn = "run_profile_step" /\ ret.status = "not_called"
    /\ \E r \in {run_profile_step(call.readme, call.entry, TechStack, call.priority,
                                  call.update_skills)} :
          ret' = [ret EXCEPT !.status = "returned", !.readme = r.readme,
                             !.patches = r.patches]
    /\ UNCHANGED <<call, pathVars, patchVars, pipeVars>>

\* cli.py lines 607-611: apply_patches on the clone of the profile
ApplyReturnedPatches ==
    /\ call.fn = "run_profile_step" /\ ret.status = "returned"
    /\ ret.patches # <<>>
    /\ \E r \in {apply_patches((Append(PatchRoot, ReadmePath) :> ret.readme), PatchRoot,
                               ret.patches)} :
          ret' = [ret EXCEPT !.status = "applied", !.error = r.error,
                             !.final = r.tree[Append(PatchRoot, ReadmePath)]]
    /\ UNCHANGED <<call, pathVars, patchVars, pipeVars>>

NextSkills == RunProfileStep \/ ApplyReturnedPatches

SpecSkills == InitSkills /\ [][NextSkills]_vars

\* The lines of the README the patches were built from and of the README
\* they left, and the lines of the second without the badges or the entry.
BuiltFrom == plain_splitlines(ret.readme)
Left == plain_splitlines(ret.final)
BadgeLine == <<"!", "[", "c", "]">>
LeftWithoutBadges == SelectSeq(Left, LAMBDA l : l # BadgeLine)
LeftWithoutEntry == SelectSeq(Left, LAMBDA l : l # NewEntry)

\* Both patches were returned and applied.
BothApplied == ret.status = "applied" /\ ret.error = "none" /\ Len(ret.patches) = 2

\* The 1-based line of the heading of the skills section and of the heading
\* that ends it (the line after the last when none does).
SkillsHeading == detect_skills_section(ret.readme).skills_start
SkillsClosing ==
    LET later == {i \in DOMAIN BuiltFrom :
                     i > SkillsHeading /\ is_skills_heading_match(BuiltFrom[i])}
    IN  IF later = {} THEN Len(BuiltFrom) + 1 ELSE Min(later)

\* The entry lies before the line of the README that had the number chosen.
EntryAtChosenLine ==
    LeftWithoutBadges = list_insert(BuiltFrom, ret.patches[1].target_line - 1, NewEntry)

\* The badges lie after the heading of the skills section and before the
\* heading that ends the section.
BadgesInSkillsSection ==
    \E at \in SkillsHeading..(SkillsClosing - 1) :
        LeftWithoutEntry = list_insert(BuiltFrom, at, BadgeLine)

\* The project section comes first in the README.
ProjectSectionFirst == ret.patches[1].target_line <= SkillsHeading

\* C27: with both patches applied in the returned order, the entry is at
\* the chosen insertion line and the badges are inside the skills section.
C27_EntryAndBadgesInPlace ==
    BothApplied => EntryAtChosenLine /\ BadgesInSkillsSection

\* Both patches were applied to a README whose project section comes first.
C27_Witness == BothApplied /\ ProjectSectionFirst

\* A README whose skills section comes first: both patches were applied.
C27_WitnessSkillsFirst == BothApplied /\ ~ProjectSectionFirst

\* With the skills section first and a line in it, in a README that ends
\* with a newline, the entry is at the chosen line and the badges are inside
\* the skills section.
C27_InPlaceWhenSkillsFirst ==
    (/\ BothApplied /\ ~ProjectSectionFirst
     /\ SkillsClosing > SkillsHeading + 1
     /\ ret.readme[Len(ret.readme)] = NL)
        => EntryAtChosenLine /\ BadgesInSkillsSection

\* Both were applied, the skills section first and with a line in it, the
\* README ending with a newline.
C27_WitnessInPlace ==
    /\ BothApplied /\ ~ProjectSectionFirst
    /\ SkillsClosing > SkillsHeading + 1
    /\ ret.readme[Len(ret.readme)] = NL

----------------------------------------------------------------------------
(* cli.py: the temporary clone of the profile repository and the config    *)
(* files at the end of a run (SpecPipe).                                   *)

\* C28: when the run has ended, no temporary clone of the profile
\* repository is left.
C28_CloneRemovedAtEnd == RunEnded => profile.temp # "alive"

\* create_branch raised with the clone made: the run ended, the clone is left.
C28_Witness ==
    /\ pc = "raised" /\ profile.temp = "alive"
    /\ opts.do_apply /\ ~portfolio.branch

\* The run returned, or raised the BuildError again after the revert.
EndedOnHandledPath ==
    \/ pc \in {"returned", "done"}
    \/ pc = "raised" /\ log # <<>> /\ "revert" \in Elems(log)
                     /\ ~portfolio.committed

\* On the paths that return, and after a build failure, no clone is left.
C28_CloneRemovedOnHandledPaths == EndedOnHandledPath => profile.temp # "alive"

\* A clone was made and removed after a build failure.
C28_WitnessBuildFailure ==
    /\ pc = "raised" /\ "revert" \in Elems(log) /\ profile.temp = "removed"

\* The projects whose config file was deleted.
DeletedConfigs == IF opts.command = "run" THEN (1..opts.n) \ config_files ELSE {}

\* C29: a config file is deleted only with the project's patch approved and
\* written, the build passed or skipped, the changes committed and the
\* branch pushed, in a run with --apply.
C29_ConfigDeletedOnlyAfterPush ==
    \A project \in DeletedConfigs :
        /\ opts.do_apply
        /\ project \in Elems(all_patches)
        /\ project \in portfolio.written
        /\ "build_failed" \notin Elems(log)
        /\ "preview_cancelled" \notin Elems(log)
        /\ portfolio.committed
        /\ portfolio.pushed

\* A config file was deleted, and that of a project whose patch was
\* rejected in the preview was kept.
C29_Witness ==
    /\ DeletedConfigs # {}
    /\ \E project \in config_files :
          \E i \in DOMAIN results : results[i].project = project /\ results[i].patches = <<>>
    /\ "preview_returned" \in Elems(log)

\* The run went to its end without a remote: no config file was deleted.
C29_WitnessNoRemote ==
    /\ pc = "done" /\ opts.command = "run" /\ ~portfolio.pushed
    /\ DeletedConfigs = {}

----------------------------------------------------------------------------
(* detector.py: the files _collect_file_tree keeps (SpecTree).             *)

\* The file lies under no directory of the repository with an excluded name.
UnderNoExcludedDir(rel) == \A i \in 1..(Len(rel) - 1) : rel[i] \notin skip_dirs

\* C30: once the tree is collected, every file of the repository under no
\* excluded directory is in it.
C30_EveryFileCollected ==
    ret.status # "start" =>
        \A rel \in call.files : UnderNoExcludedDir(rel) => rel \in Elems(ret.file_tree)

\* The tree of a repository beneath a directory named build was collected.
C30_Witness ==
    /\ ret.status = "collected"
    /\ call.repo_path = <<"/", "build", "site">>
    /\ <<"index.html">> \in call.files

\* With no excluded name among the parts of the root, every file under no
\* excluded directory whose own name is not excluded either is in the tree.
C30_CollectedOutsideExcludedRoot ==
    (/\ ret.status # "start"
     /\ \A part \in Elems(call.repo_path) : part \notin skip_dirs)
        => \A rel \in call.files :
               (UnderNoExcludedDir(rel) /\ rel[Len(rel)] \notin skip_dirs)
                   => rel \in Elems(ret.file_tree)

\* The tree of a repository outside any excluded directory was collected.
C30_WitnessOutside ==
    /\ ret.status = "collected"
    /\ call.repo_path = <<"/", "home", "site">>
    /\ {<<"index.html">>, <<"src", "p.ts">>} \subseteq Elems(ret.file_tree)

====
